---------------------------- MODULE Spec2Model ----------------------------
(***************************************************************************)
(* A model of the EXASPERATION retrieval core.                             *)
(*                                                                         *)
(*   Part I   src/retrieval/reranker.py : Reranker                         *)
(*   Part II  src/data_processing/semantic_chunker.py : SemanticChunker    *)
(*            src/data_processing/semantic_document_chunker.py             *)
(*                                                                         *)
(* Relevance scores are floats in the source.  They are modelled as        *)
(* integers in units of 1/10000, so 0.5 is 5000 and 1.0 is 10000; every    *)
(* sum and product the heuristic forms is exact in these units.            *)
(* A text is a sequence of words; a substring test of the source is a      *)
(* contiguous-subsequence test here.                                       *)
(*                                                                         *)
(* In Part II a text is a sequence of characters (one-character strings),  *)
(* so len(), slices, offsets, split('\n'), strip() and the regular         *)
(* expressions of the source are computed character by character.  A       *)
(* character other than the ones tested below stands for any word          *)
(* character.  Chunk ids are the strings the source formats.               *)
(***************************************************************************)
EXTENDS Integers, Sequences, FiniteSets, TLC

VARIABLES
    model,        \* Reranker.model: "loaded" (a CrossEncoder) or "none"
    query,        \* the query of the request, a sequence of words
    documents,    \* the candidate list of the request
    threshold,    \* the threshold of the request
    op,           \* the entry point called: "rerank" or "rerank_with_scores"
    pc,           \* position of the request
    scoring,      \* how the scores were produced
    scored_docs,  \* what compute_cross_encoder_scores returned
    diversified_docs, \* what diversify_results returned
    result,       \* what the entry point returned
    nlp,          \* SemanticChunker.nlp is set (NLTK initialised) or None
    batch,        \* the documents passed to split_documents
    nlp_answers,  \* per document of the batch, what NLTK's density analysis yields
    doc_index,    \* the loop of split_documents: index of the next document
    doc_chunks,   \* chunks of split_documents: those of the document processed last
    all_chunks,   \* all_chunks of split_documents
    split_pc,     \* position of the split_documents call
    rerun,       \* a second call on the document processed last, and its chunks
    evaluation,  \* an evaluate_coherence call: its inputs, position and score
    exabeam,     \* an ExabeamChunker.chunk_documents call: documents and chunks
    chunking,    \* a _chunk_by_semantic_boundaries call: its inputs and results
    nlp_init,    \* the NLTK initialisation of the process and of each instance
    ingestion    \* an _ingest_documents_in_batches call: batches and statistics

rvars == <<model, query, documents, threshold, op, pc, scoring, scored_docs,
           diversified_docs, result>>

cvars == <<nlp, batch, nlp_answers, doc_index, doc_chunks, all_chunks, split_pc, rerun>>

ovars == <<evaluation, exabeam, chunking, nlp_init, ingestion>>

\* all but the evaluation, all but the ExabeamChunker call, and so on
but_evaluation == <<exabeam, chunking, nlp_init, ingestion>>

but_exabeam == <<evaluation, chunking, nlp_init, ingestion>>

but_chunking == <<evaluation, exabeam, nlp_init, ingestion>>

but_nlp_init == <<evaluation, exabeam, chunking, ingestion>>

but_ingestion == <<evaluation, exabeam, chunking, nlp_init>>

vars == <<rvars, cvars, ovars>>

\* the document processed last has not been given to the chunker again
NotRepeated == [done |-> FALSE, chunks |-> <<>>]

\* no split_documents call is under way
ChunkerIdle ==
    /\ nlp = FALSE
    /\ batch = <<>>
    /\ nlp_answers = <<>>
    /\ doc_index = 1
    /\ doc_chunks = <<>>
    /\ all_chunks = <<>>
    /\ split_pc = "idle"
    /\ rerun = NotRepeated

\* no evaluate_coherence call and no chunk_documents call is under way
NotEvaluating == [pc |-> "idle"]

NotChunking == [pc |-> "idle"]

NotSplitting == [pc |-> "idle"]

NotInitialising == [pc |-> "idle"]

NotIngesting == [pc |-> "idle"]

EvaluationIdle == evaluation = NotEvaluating

ExabeamIdle == exabeam = NotChunking

ChunkingIdle == chunking = NotSplitting

NlpInitIdle == nlp_init = NotInitialising

IngestionIdle == ingestion = NotIngesting

OthersIdle ==
    EvaluationIdle /\ ExabeamIdle /\ ChunkingIdle /\ NlpInitIdle /\ IngestionIdle

\* no reranking request is under way
RerankerIdle ==
    /\ model = "none"
    /\ query = <<>>
    /\ documents = <<>>
    /\ threshold = 0
    /\ op = "rerank"
    /\ pc = "idle"
    /\ scoring = "none"
    /\ scored_docs = <<>>
    /\ diversified_docs = <<>>
    /\ result = <<>>

----------------------------------------------------------------------------
(* Bounds of the model *)

MaxDocs == 4

MaxQueryWords == 2

FairMaxDocs == 1

\* lines of a text to chunk
MaxLines == 3

\* lines of a text that is chunked twice
RepeatLines == 2

\* documents of a batch passed to split_documents
MaxBatch == 2

\* chunks passed to the cross-reference step
MaxChunks == 2

\* pairs of adjacent sentences of an evaluated text that have a similarity
MaxPairs == 2

\* sentences whose local density NLTK may find high
MaxDense == 1

\* SemanticDocumentChunker(chunk_size, chunk_overlap), in characters
ChunkSize == 4

ChunkOverlap == 1

----------------------------------------------------------------------------
(* Generic sequence helpers *)

Range(s) == {s[i] : i \in 1..Len(s)}

Min2(a, b) == IF a <= b THEN a ELSE b

Take(s, n) == SubSeq(s, 1, Min2(n, Len(s)))

SeqsUpTo(S, n) == UNION {[1..k -> S] : k \in 0..n}

\* Python: needle in haystack, on word sequences
Contains(hay, needle) ==
    \E i \in 0..(Len(hay) - Len(needle)) :
        \A j \in 1..Len(needle) : hay[i + j] = needle[j]

RECURSIVE Filter(_, _)
Filter(s, keep) ==
    IF s = <<>> THEN <<>>
    ELSE IF keep[Head(s)] THEN <<Head(s)>> \o Filter(Tail(s), keep)
         ELSE Filter(Tail(s), keep)

----------------------------------------------------------------------------
(* Documents and scored documents *)

NoDocType == "<absent>"

Doc(content, doc_type) == [page_content |-> content, doc_type |-> doc_type]

\* doc.metadata.get("doc_type", default)
DocTypeOr(doc, default) == IF doc.doc_type = NoDocType THEN default ELSE doc.doc_type

DocOf(item) == item[1]

ScoreOf(item) == item[2]

----------------------------------------------------------------------------
(* Python's sorted(items, key=score, reverse=True): a stable sort, so items *)
(* of equal score keep their input order.                                   *)

RECURSIVE InsertDesc(_, _)
InsertDesc(sorted, item) ==
    IF sorted = <<>> THEN <<item>>
    ELSE IF ScoreOf(Head(sorted)) >= ScoreOf(item)
         THEN <<Head(sorted)>> \o InsertDesc(Tail(sorted), item)
         ELSE <<item>> \o sorted

RECURSIVE SortDescFrom(_, _)
SortDescFrom(acc, items) ==
    IF items = <<>> THEN acc
    ELSE SortDescFrom(InsertDesc(acc, Head(items)), Tail(items))

SortDesc(items) == SortDescFrom(<<>>, items)

----------------------------------------------------------------------------
(* Reranker._init_scoring_patterns *)

\* relevance_keywords, weights in tenths (3.0 is 30)
relevance_keywords ==
    [definition |-> 30, example |-> 25, implementation |-> 20,
     configuration |-> 20, explanation |-> 20, overview |-> 15,
     summary |-> 15, guide |-> 15, tutorial |-> 15, setup |-> 15,
     syntax |-> 15, reference |-> 10, details |-> 10]

\* doc_type_weights, in tenths (1.5 is 15)
doc_type_weights ==
    [overview |-> 15, parser |-> 12, rule |-> 12, model |-> 12,
     use_case |-> 13, data_source |-> 11, reference |-> 9]

----------------------------------------------------------------------------
(* Reranker.compute_heuristic_scores *)

BaseScore == 5000

OverlapWeight == 3000

PhraseBonus == 1500

ScoreCap == 10000

RECURSIVE SumOver(_, _)
SumOver(S, f) ==
    IF S = {} THEN 0
    ELSE LET x == CHOOSE y \in S : TRUE IN f[x] + SumOver(S \ {x}, f)

\* len() of the words joined by single blanks
RECURSIVE CharLen(_)
CharLen(words) ==
    IF words = <<>> THEN 0
    ELSE IF Len(words) = 1 THEN Len(words[1])
    ELSE Len(Head(words)) + 1 + CharLen(Tail(words))

\* re.findall(r'\b\w+(?:\s+\w+){1,5}\b', query_lower): greedy runs of 2..6 words
RECURSIVE PhraseRuns(_)
PhraseRuns(words) ==
    IF Len(words) < 2 THEN <<>>
    ELSE <<Take(words, 6)>> \o PhraseRuns(SubSeq(words, 7, Len(words)))

Phrases(q) ==
    LET runs == PhraseRuns(q)
    IN  Filter(runs, [r \in Range(runs) |-> CharLen(r) > 5])

TermOverlapBonus(q, doc) ==
    LET query_terms == Range(q)
        doc_terms == Range(doc.page_content)
    IN  IF query_terms # {} /\ doc_terms # {}
        THEN (OverlapWeight * Cardinality(query_terms \cap doc_terms))
                 \div Cardinality(query_terms)
        ELSE 0

PhraseBonuses(q, doc) ==
    IF CharLen(q) > 5
    THEN LET ph == Phrases(q)
         IN  PhraseBonus *
                 Cardinality({i \in 1..Len(ph) : Contains(doc.page_content, ph[i])})
    ELSE 0

KeywordBonuses(doc) ==
    LET present == {k \in DOMAIN relevance_keywords : k \in Range(doc.page_content)}
    IN  SumOver(present, [k \in present |-> 50 * relevance_keywords[k]])

ApplyDocTypeWeight(score, doc) ==
    LET doc_type == DocTypeOr(doc, "")
    IN  IF doc_type \in DOMAIN doc_type_weights
        THEN (score * doc_type_weights[doc_type]) \div 10
        ELSE score

HeuristicScore(q, doc) ==
    Min2(ApplyDocTypeWeight(
             BaseScore + TermOverlapBonus(q, doc) + PhraseBonuses(q, doc)
                       + KeywordBonuses(doc), doc),
         ScoreCap)

compute_heuristic_scores(q, docs) ==
    [i \in 1..Len(docs) |-> <<docs[i], HeuristicScore(q, docs[i])>>]

----------------------------------------------------------------------------
(* Reranker.diversify_results *)

TopScoreMin == 6000

FillScoreMin == 5000

DiversifyMinDocs == 3

\* the keys of type_groups, in the order their first document appears
RECURSIVE TypeOrder(_, _)
TypeOrder(items, seen) ==
    IF items = <<>> THEN <<>>
    ELSE LET t == DocTypeOr(DocOf(Head(items)), "unknown")
         IN  IF t \in seen THEN TypeOrder(Tail(items), seen)
             ELSE <<t>> \o TypeOrder(Tail(items), seen \cup {t})

TypeGroup(items, t) ==
    Filter(items, [it \in Range(items) |-> DocTypeOr(DocOf(it), "unknown") = t])

\* first loop: the top document of each type, if its score is good enough
RECURSIVE TopPerType(_, _)
TopPerType(items, types) ==
    IF types = <<>> THEN <<>>
    ELSE LET top == Head(SortDesc(TypeGroup(items, Head(types))))
         IN  (IF ScoreOf(top) >= TopScoreMin THEN <<top>> ELSE <<>>)
                 \o TopPerType(items, Tail(types))

diversify_results(items) ==
    IF Len(items) <= DiversifyMinDocs THEN items
    ELSE LET tops == TopPerType(items, TypeOrder(items, {}))
             remaining ==
                 SortDesc(Filter(items, [it \in Range(items) |-> it \notin Range(tops)]))
             fill == Filter(remaining,
                            [it \in Range(remaining) |-> ScoreOf(it) >= FillScoreMin])
         IN  SortDesc(tops \o fill)

----------------------------------------------------------------------------
(* Reranker.rerank and Reranker.rerank_with_scores, after scoring *)

MinKept == 3

DocsOf(items) == [i \in 1..Len(items) |-> DocOf(items[i])]

AboveThreshold(items, th) ==
    Filter(items, [it \in Range(items) |-> ScoreOf(it) >= th])

\* rerank without the "keep at least 3" fallback
rerank_no_fallback(items, th) ==
    DocsOf(AboveThreshold(diversify_results(items), th))

rerank(items, th) ==
    LET filtered_docs == DocsOf(AboveThreshold(diversify_results(items), th))
    IN  IF Len(filtered_docs) < MinKept /\ items # <<>>
        THEN DocsOf(Take(SortDesc(items), MinKept))
        ELSE filtered_docs

rerank_with_scores(items, th) ==
    SortDesc(AboveThreshold(diversify_results(items), th))

----------------------------------------------------------------------------
(* The inputs of a request *)

\* the words a query is made of
Words == {"parser", "siem"}

DocU1 == Doc(<<"parser", "definition">>, "use_case")

DocU2 == Doc(<<"siem">>, "use_case")

DocR == Doc(<<"siem", "parser">>, "reference")

Docs == {DocU1, DocU2, DocR}

\* what a cross-encoder may answer: the source passes float(score) through
ModelScores == {4500, 5500, 6500, 12000}

Thresholds == {0, 7000}

Queries == SeqsUpTo(Words, MaxQueryWords) \ {<<>>}

----------------------------------------------------------------------------
(* Reranker.compute_cross_encoder_scores *)

\* zip(documents, scores)
ScoredByModel(docs, answer) == [i \in 1..Len(docs) |-> <<docs[i], answer[docs[i]]>>]

\* a handler that lets the exception of predict escape
OnPredictErrorPropagates(q, docs) == [raised |-> TRUE, scored |-> <<>>]

\* except Exception: log, then fall through to compute_heuristic_scores
OnPredictError(q, docs) ==
    [raised |-> FALSE, scored |-> compute_heuristic_scores(q, docs)]

\* the body of the entry point after scoring
Finish(entry, items, th) ==
    IF entry = "rerank" THEN rerank(items, th) ELSE rerank_with_scores(items, th)

----------------------------------------------------------------------------
(* One request against a constructed Reranker *)

RerankerInit ==
    /\ model \in {"none", "loaded"}
    /\ query \in Queries
    /\ documents \in SeqsUpTo(Docs, MaxDocs)
    /\ threshold \in Thresholds
    /\ op \in {"rerank", "rerank_with_scores"}
    /\ pc = "call"
    /\ scoring = "none"
    /\ scored_docs = <<>>
    /\ diversified_docs = <<>>
    /\ result = <<>>
    /\ ChunkerIdle
    /\ OthersIdle

\* if not documents: return []
ReturnEmpty ==
    /\ pc = "call"
    /\ documents = <<>>
    /\ pc' = "returned"
    /\ result' = <<>>
    /\ UNCHANGED <<model, query, documents, threshold, op, scoring, scored_docs,
                   diversified_docs>>
    /\ UNCHANGED <<cvars, ovars>>

\* self.model is None: heuristic scoring, then the rest of the entry point
ScoreWithoutModel ==
    /\ pc = "call"
    /\ documents # <<>>
    /\ model = "none"
    /\ scoring' = "heuristic"
    /\ scored_docs' = compute_heuristic_scores(query, documents)
    /\ diversified_docs' = diversify_results(scored_docs')
    /\ result' = Finish(op, scored_docs', threshold)
    /\ pc' = "returned"
    /\ UNCHANGED <<model, query, documents, threshold, op>>
    /\ UNCHANGED <<cvars, ovars>>

\* self.model.predict(pairs) is entered
CallPredict ==
    /\ pc = "call"
    /\ documents # <<>>
    /\ model = "loaded"
    /\ pc' = "predict"
    /\ UNCHANGED <<model, query, documents, threshold, op, scoring, scored_docs,
                   diversified_docs, result>>
    /\ UNCHANGED <<cvars, ovars>>

\* predict answers one score per pair
PredictReturns ==
    /\ pc = "predict"
    /\ \E answer \in [Range(documents) -> ModelScores] :
           scored_docs' = ScoredByModel(documents, answer)
    /\ scoring' = "model"
    /\ diversified_docs' = diversify_results(scored_docs')
    /\ result' = Finish(op, scored_docs', threshold)
    /\ pc' = "returned"
    /\ UNCHANGED <<model, query, documents, threshold, op>>
    /\ UNCHANGED <<cvars, ovars>>

\* predict raises
PredictRaises ==
    /\ pc = "predict"
    /\ scoring' = "fallback"
    /\ LET handled == OnPredictError(query, documents)
       IN  /\ scored_docs' = handled.scored
           /\ diversified_docs' = IF handled.raised THEN <<>>
                                   ELSE diversify_results(handled.scored)
           /\ result' = IF handled.raised THEN <<>>
                         ELSE Finish(op, handled.scored, threshold)
           /\ pc' = IF handled.raised THEN "raised" ELSE "returned"
    /\ UNCHANGED <<model, query, documents, threshold, op>>
    /\ UNCHANGED <<cvars, ovars>>

RerankerNext ==
    \/ ReturnEmpty
    \/ ScoreWithoutModel
    \/ CallPredict
    \/ PredictReturns
    \/ PredictRaises

----------------------------------------------------------------------------

SpecReranker == RerankerInit /\ [][RerankerNext]_vars

\* The steps of the Python code always go on; nothing obliges model.predict to
\* answer, and the source sets no timeout that would end the wait.
\* Liveness is checked on the requests with at most FairMaxDocs candidates.
FairRerankerInit == RerankerInit /\ Len(documents) <= FairMaxDocs

FairSpecReranker ==
    /\ FairRerankerInit
    /\ [][RerankerNext]_vars
    /\ WF_vars(ReturnEmpty)
    /\ WF_vars(ScoreWithoutModel)
    /\ WF_vars(CallPredict)

----------------------------------------------------------------------------
(* Properties of the reranker *)

\* the score the request gave to a document
ScoreIn(items, d) ==
    ScoreOf(items[CHOOSE i \in 1..Len(items) : DocOf(items[i]) = d])

Survivors == AboveThreshold(diversified_docs, threshold)

DocTypesOf(items) == {DocTypeOr(DocOf(items[i]), "unknown") : i \in 1..Len(items)}

PositionsOfType(items, t) ==
    {i \in 1..Len(items) : DocTypeOr(DocOf(items[i]), "unknown") = t}

\* C1: rerank returns at least min(3, n) of its n candidates; when fewer than 3
\* candidates survive the threshold filter it returns exactly min(3, n)
\* candidates, none of them scoring below a candidate it left out.
C1_RerankKeepsAtLeastThree ==
    (pc = "returned" /\ op = "rerank") =>
        /\ Len(result) >= Min2(3, Len(documents))
        /\ (documents # <<>> => result # <<>>)
        /\ (Len(Survivors) < 3 =>
               /\ Len(result) = Min2(3, Len(documents))
               /\ \A d \in Range(result) :
                      \A e \in Range(documents) \ Range(result) :
                          ScoreIn(scored_docs, e) <= ScoreIn(scored_docs, d))

\* C1 witness: more than 3 candidates, fewer than 3 survive the threshold, and
\* rerank has returned the top 3.
C1_Witness ==
    /\ pc = "returned"
    /\ op = "rerank"
    /\ Len(documents) > 3
    /\ Len(Survivors) < 3
    /\ Len(result) = 3

\* C2: the chunks rerank_with_scores returns, scores dropped, are the chunks
\* rerank returns on the same scored candidates and threshold, in the same order.
C2_WithScoresMatchesRerank ==
    (pc = "returned" /\ op = "rerank_with_scores") =>
        DocsOf(result) = rerank(scored_docs, threshold)

\* C3: the list rerank returns is ordered by score, highest first.
C3_RerankSortedByScore ==
    (pc = "returned" /\ op = "rerank") =>
        \A i \in 1..Len(result) : \A j \in 1..Len(result) :
            i < j => ScoreIn(scored_docs, result[i]) >= ScoreIn(scored_docs, result[j])

\* C4: when the top candidate of every document type scores at least 0.6, the
\* diversified order shows every document type before the second candidate of
\* the highest-scoring document type.
C4_EveryTypeBeforeSecondOfTop ==
    (/\ pc = "returned"
     /\ Len(scored_docs) > 3
     /\ Cardinality(DocTypesOf(scored_docs)) > 1
     /\ \A t \in DocTypesOf(scored_docs) :
            \E i \in PositionsOfType(scored_docs, t) :
                ScoreOf(scored_docs[i]) >= 6000) =>
        LET top_type == DocTypeOr(DocOf(Head(SortDesc(scored_docs))), "unknown")
            of_top == PositionsOfType(diversified_docs, top_type)
        IN  \A second \in of_top :
                (\E first \in of_top : first < second) =>
                    \A t \in DocTypesOf(scored_docs) :
                        \E i \in PositionsOfType(diversified_docs, t) : i < second

\* C5: every score rerank_with_scores pairs with a chunk lies in [0, 1].
C5_ScoresInUnitInterval ==
    (pc = "returned" /\ op = "rerank_with_scores") =>
        \A i \in 1..Len(result) :
            ScoreOf(result[i]) >= 0 /\ ScoreOf(result[i]) <= 10000

\* C6: without a model, or when predict raises, compute_cross_encoder_scores
\* raises nothing and returns one heuristic (document, score) pair per candidate,
\* in input order.
C6_FallbackScoresEveryCandidate ==
    (pc \in {"returned", "raised"} /\ scoring \in {"heuristic", "fallback"}) =>
        /\ pc = "returned"
        /\ Len(scored_docs) = Len(documents)
        /\ \A i \in 1..Len(documents) :
               scored_docs[i] = <<documents[i], HeuristicScore(query, documents[i])>>

\* C6 witness: predict raised on a list of several candidates and the request
\* returned.
C6_Witness ==
    /\ pc = "returned"
    /\ scoring = "fallback"
    /\ Len(documents) >= 2
    /\ Len(scored_docs) = Len(documents)

\* C7: every rerank request eventually returns.
C7_RequestEventuallyReturns == <>(pc = "returned")

----------------------------------------------------------------------------
(*                     Part II : the semantic chunker                      *)
----------------------------------------------------------------------------
(* Python string operations on character sequences *)

NL == "\n"

IsSpace(c) == c \in {" ", NL}

RECURSIVE LStrip(_)
LStrip(s) == IF s # <<>> /\ IsSpace(Head(s)) THEN LStrip(Tail(s)) ELSE s

RECURSIVE RStrip(_)
RStrip(s) ==
    IF s # <<>> /\ IsSpace(s[Len(s)]) THEN RStrip(SubSeq(s, 1, Len(s) - 1)) ELSE s

\* s.strip()
Strip(s) == RStrip(LStrip(s))

\* s[start:end] with 0-based offsets, 0 <= start
Slice(s, start, end) == SubSeq(s, start + 1, Min2(end, Len(s)))

\* s.startswith(prefix)
StartsWith(s, prefix) ==
    Len(s) >= Len(prefix) /\ SubSeq(s, 1, Len(prefix)) = prefix

\* s.find(sub, from): the 0-based offset of the first occurrence at or after
\* from, or -1
Find(s, sub, from) ==
    LET hits == {i \in from..(Len(s) - Len(sub)) :
                     SubSeq(s, i + 1, i + Len(sub)) = sub}
    IN  IF hits = {} THEN 0 - 1 ELSE CHOOSE i \in hits : \A j \in hits : i <= j

\* the k-th smallest element of a set of numbers
Nth(S, k) == CHOOSE i \in S : Cardinality({j \in S : j < i}) = k - 1

\* the pieces of s between the positions in cuts, the characters at those
\* positions left out: always at least one piece
Between(s, cuts) ==
    [k \in 1..(Cardinality(cuts) + 1) |->
        SubSeq(s,
               IF k = 1 THEN 1 ELSE Nth(cuts, k - 1) + 1,
               IF k = Cardinality(cuts) + 1 THEN Len(s) ELSE Nth(cuts, k) - 1)]

\* text.split('\n'): always at least one line
SplitLines(s) == Between(s, {i \in 1..Len(s) : s[i] = NL})

\* sep.join(parts)
RECURSIVE Join(_, _)
Join(parts, sep) ==
    IF parts = <<>> THEN <<>>
    ELSE IF Len(parts) = 1 THEN parts[1]
    ELSE parts[1] \o sep \o Join(Tail(parts), sep)

JoinLines(lines) == Join(lines, <<NL>>)

UpperLetters ==
    <<"A", "B", "C", "D", "E", "F", "G", "H", "I", "J", "K", "L", "M",
      "N", "O", "P", "Q", "R", "S", "T", "U", "V", "W", "X", "Y", "Z">>

LowerLetters ==
    <<"a", "b", "c", "d", "e", "f", "g", "h", "i", "j", "k", "l", "m",
      "n", "o", "p", "q", "r", "s", "t", "u", "v", "w", "x", "y", "z">>

\* s.lower()
Lower(s) ==
    [i \in 1..Len(s) |->
        IF \E k \in 1..26 : UpperLetters[k] = s[i]
        THEN LowerLetters[CHOOSE k \in 1..26 : UpperLetters[k] = s[i]]
        ELSE s[i]]

\* the backquote character (a TLA+ string cannot hold a backquote)
BT == "~"

\* the code-fence delimiter, three backquotes
FENCE == <<BT, BT, BT>>

\* the number of backquotes that directly precede position i of s
BackquotesBefore(s, i) ==
    LET others == {j \in 1..(i - 1) : s[j] # BT}
    IN  IF others = {} THEN i - 1
        ELSE i - 1 - (CHOOSE j \in others : \A k \in others : k <= j)

\* the number of fence delimiters in s, counted left to right without overlap:
\* a delimiter starts at every third backquote of a run
CountFences(s) ==
    Cardinality({i \in 1..(Len(s) - 2) :
                    /\ SubSeq(s, i, i + 2) = FENCE
                    /\ BackquotesBefore(s, i) % 3 = 0})

----------------------------------------------------------------------------
(* SemanticChunker._init_content_patterns: section_patterns, as re.match     *)
(* applies them to a string                                                  *)

\* the number of leading '#' of s
RECURSIVE LeadingHashes(_)
LeadingHashes(s) ==
    IF s # <<>> /\ Head(s) = "#" THEN 1 + LeadingHashes(Tail(s)) ELSE 0

\* the leading blanks that ^\s* consumes
RECURSIVE LeadingSpaces(_)
LeadingSpaces(s) ==
    IF s # <<>> /\ IsSpace(Head(s)) THEN 1 + LeadingSpaces(Tail(s)) ELSE 0

\* (.+?)\s*$ over rest, where . matches no newline and $ matches at the end or
\* before a final newline: the shortest non-empty prefix without newline that
\* only blanks follow; <<>> stands for no match
LazyGroup(rest) ==
    LET ok == {n \in 1..Len(rest) :
                  /\ \A i \in 1..n : rest[i] # NL
                  /\ \A i \in (n + 1)..Len(rest) : IsSpace(rest[i])}
    IN  IF ok = {} THEN <<>>
        ELSE SubSeq(rest, 1, CHOOSE n \in ok : \A m \in ok : n <= m)

\* ^\s*#{level}\s+(.+?)\s*$ : the group when it matches, <<>> when it does not.
\* \s+ is greedy and gives blanks back only when nothing else is left.
HashHeaderGroup(s, level) ==
    LET body == SubSeq(s, LeadingSpaces(s) + 1, Len(s))
        rest == SubSeq(body, level + 1, Len(body))
        blanks == LeadingSpaces(rest)
        tries == {k \in 1..blanks :
                     LazyGroup(SubSeq(rest, k + 1, Len(rest))) # <<>>}
    IN  IF LeadingHashes(body) >= level /\ blanks >= 1 /\ tries # {}
        THEN LazyGroup(SubSeq(rest, (CHOOSE k \in tries : \A j \in tries : k >= j) + 1,
                              Len(rest)))
        ELSE <<>>

\* ^(.+?)\s*\n\s*<mark>+\s*$ : the group when it matches, <<>> when it does not
UnderlinedGroup(s, mark) ==
    LET ok == {n \in 1..Len(s) :
                  /\ \A i \in 1..n : s[i] # NL
                  /\ \E nl \in (n + 1)..Len(s) :
                        /\ s[nl] = NL
                        /\ \A i \in (n + 1)..(nl - 1) : IsSpace(s[i])
                        /\ \E a \in (nl + 1)..Len(s) : \E b \in a..Len(s) :
                              /\ \A i \in (nl + 1)..(a - 1) : IsSpace(s[i])
                              /\ \A i \in a..b : s[i] = mark
                              /\ \A i \in (b + 1)..Len(s) : IsSpace(s[i])}
    IN  IF ok = {} THEN <<>>
        ELSE SubSeq(s, 1, CHOOSE n \in ok : \A m \in ok : n <= m)

\* the first pattern of section_patterns that matches s, as
\* [level, group]; level 0 when none matches
MatchSection(s) ==
    IF HashHeaderGroup(s, 1) # <<>> THEN [level |-> 1, group |-> HashHeaderGroup(s, 1)]
    ELSE IF HashHeaderGroup(s, 2) # <<>> THEN [level |-> 2, group |-> HashHeaderGroup(s, 2)]
    ELSE IF HashHeaderGroup(s, 3) # <<>> THEN [level |-> 3, group |-> HashHeaderGroup(s, 3)]
    ELSE IF HashHeaderGroup(s, 4) # <<>> THEN [level |-> 4, group |-> HashHeaderGroup(s, 4)]
    ELSE IF UnderlinedGroup(s, "=") # <<>> THEN [level |-> 1, group |-> UnderlinedGroup(s, "=")]
    ELSE IF UnderlinedGroup(s, "-") # <<>> THEN [level |-> 2, group |-> UnderlinedGroup(s, "-")]
    ELSE [level |-> 0, group |-> <<>>]

IsSectionHeader(s) == MatchSection(s).level > 0

----------------------------------------------------------------------------
(* Metadata maps: dicts with string keys *)

Has(md, key) == key \in DOMAIN md

\* md[key] = value
Put(md, key, value) ==
    [k \in DOMAIN md \cup {key} |-> IF k = key THEN value ELSE md[k]]

\* md.get(key, default)
Get(md, key, default) == IF key \in DOMAIN md THEN md[key] ELSE default

\* for key, value in other.items(): md[key] = value
Update(md, other) ==
    [k \in DOMAIN md \cup DOMAIN other |-> IF k \in DOMAIN other THEN other[k] ELSE md[k]]

EmptyMetadata == [k \in {} |-> 0]

Document(text, metadata) == [page_content |-> text, metadata |-> metadata]

----------------------------------------------------------------------------
(* NLTK, as the chunker uses it.  sent_tokenize is modelled as ending a      *)
(* sentence after '.', '!' or '?' followed by a blank or the end of the text; *)
(* the density that the tagger and the entity chunker yield is an oracle:     *)
(* dense_at is the set of sentence indexes whose local context is denser than *)
(* 0.7, text_density the density of a whole text in tenths.                   *)

SentenceEnd == {".", "!", "?"}

\* the positions at which a sentence ends
SentenceEnds(s) ==
    {i \in 1..Len(s) : s[i] \in SentenceEnd /\ (i = Len(s) \/ IsSpace(s[i + 1]))}

\* the stripped sentences up to the last sentence end, and what follows it if
\* it is not blank
SentencesFrom(s, ends) ==
    LET n == Cardinality(ends)
        last == IF n = 0 THEN 0 ELSE Nth(ends, n)
        rest == Strip(SubSeq(s, last + 1, Len(s)))
    IN  [k \in 1..n |->
            Strip(SubSeq(s, IF k = 1 THEN 1 ELSE Nth(ends, k - 1) + 1, Nth(ends, k)))]
        \o (IF rest = <<>> THEN <<>> ELSE <<rest>>)

sent_tokenize(text) == SentencesFrom(text, SentenceEnds(text))

----------------------------------------------------------------------------
(* SemanticChunker._find_semantic_boundaries *)

LongSentence == 200

\* the starting offset of line i of lines (1-based i, 0-based offset)
RECURSIVE LineStart(_, _)
LineStart(lines, i) ==
    IF i = 1 THEN 0 ELSE LineStart(lines, i - 1) + Len(lines[i - 1]) + 1

HeadingBoundaries(text) ==
    LET lines == SplitLines(text)
    IN  {LineStart(lines, i) : i \in {j \in 1..Len(lines) : IsSectionHeader(lines[j])}}

\* the loop over the sentences: the offsets appended to boundaries
RECURSIVE SentenceBoundaries(_, _, _, _, _)
SentenceBoundaries(text, sentences, i, char_index, dense_at) ==
    IF i > Len(sentences) THEN {}
    ELSE LET sentence == sentences[i]
             sentence_start == Find(text, sentence, char_index)
         IN  IF sentence_start = 0 - 1
             THEN SentenceBoundaries(text, sentences, i + 1,
                                     char_index + Len(sentence), dense_at)
             ELSE LET next_index == sentence_start + Len(sentence)
                      here == IF /\ ~IsSectionHeader(sentence)
                                 /\ (i \in dense_at \/ Len(sentence) > LongSentence)
                              THEN {next_index} ELSE {}
                  IN  here \cup SentenceBoundaries(text, sentences, i + 1,
                                                   next_index, dense_at)

\* sorted(set(boundaries))
RECURSIVE SortedSeq(_)
SortedSeq(S) ==
    IF S = {} THEN <<>>
    ELSE LET m == CHOOSE x \in S : \A y \in S : x <= y
         IN  <<m>> \o SortedSeq(S \ {m})

_find_semantic_boundaries(text, has_nlp, dense_at) ==
    IF text = <<>> \/ ~has_nlp THEN <<>>
    ELSE LET sentences == sent_tokenize(text)
         IN  IF sentences = <<>> THEN <<>>
             ELSE SortedSeq(HeadingBoundaries(text)
                            \cup SentenceBoundaries(text, sentences, 1, 0, dense_at))

----------------------------------------------------------------------------
(* SemanticChunker._extract_content_features.  Of content_type_patterns only *)
(* code_block can match a text of the model's alphabet; the entity lists come *)
(* from word lists and from NLTK and are empty for such a text.               *)

ContentTypesOf(text) == IF CountFences(text) >= 2 THEN <<"code_block">> ELSE <<>>

_extract_content_features(text, text_density) ==
    [content_type |-> ContentTypesOf(text),
     entities |-> <<>>,
     security_entities |-> <<>>,
     exabeam_entities |-> <<>>,
     complexity |-> 0,
     information_density |-> text_density]

----------------------------------------------------------------------------
(* langchain's RecursiveCharacterTextSplitter(chunk_size, chunk_overlap)     *)
(* .split_text, by its contract: stripped, non-empty pieces of the text of at *)
(* most chunk_size characters, consecutive pieces overlapping by              *)
(* chunk_overlap characters.                                                  *)

RECURSIVE WindowsFrom(_, _, _, _)
WindowsFrom(text, start, size, step) ==
    LET piece == Strip(Slice(text, start, start + size))
        rest == IF start + size >= Len(text) THEN <<>>
                ELSE WindowsFrom(text, start + step, size, step)
    IN  (IF piece = <<>> THEN <<>> ELSE <<piece>>) \o rest

split_text(text, chunk_size, chunk_overlap) ==
    WindowsFrom(text, 0, chunk_size,
                IF chunk_size - chunk_overlap >= 1 THEN chunk_size - chunk_overlap ELSE 1)

----------------------------------------------------------------------------
(* SemanticDocumentChunker.__init__ and SemanticChunker.__init__ *)

min_chunk_size == ChunkSize \div 2

max_chunk_size == ChunkSize * 2

chunk_overlap == ChunkOverlap

\* base_metadata.get('id', 'doc')
IdOf(md) == Get(md, "id", "doc")

----------------------------------------------------------------------------
(* SemanticChunker._adjust_chunk_size, density in tenths *)

_adjust_chunk_size(text_density) ==
    [chunk_size |->
         (10 * max_chunk_size - text_density * (max_chunk_size - min_chunk_size)) \div 10,
     chunk_overlap |-> (10 * chunk_overlap + text_density * chunk_overlap) \div 10]

----------------------------------------------------------------------------
(* SemanticChunker._chunk_by_semantic_boundaries *)

\* result_docs of the loop over the final chunks
ChunkDocs(chunks, base_metadata, text_density) ==
    [i \in 1..Len(chunks) |->
        Document(chunks[i],
                 Update(Put(Put(base_metadata, "chunk_index", i - 1),
                            "chunk_id", IdOf(base_metadata) \o "_chunk_" \o ToString(i - 1)),
                        _extract_content_features(chunks[i], text_density)))]

\* the stripped, non-empty segments between consecutive boundaries
RECURSIVE Segments(_, _, _)
Segments(text, boundaries, i) ==
    IF i > Len(boundaries) THEN <<>>
    ELSE LET start == boundaries[i]
             end == IF i < Len(boundaries) THEN boundaries[i + 1] ELSE Len(text)
             segment == Strip(Slice(text, start, end))
         IN  (IF segment # <<>> THEN <<segment>> ELSE <<>>)
                 \o Segments(text, boundaries, i + 1)

\* the post-processing loop: final_chunks, given the chunk being built
RECURSIVE MergeSegments(_, _)
MergeSegments(chunks, current_chunk) ==
    IF chunks = <<>>
    THEN (IF current_chunk # <<>> THEN <<current_chunk>> ELSE <<>>)
    ELSE LET chunk == Head(chunks)
         IN  IF current_chunk # <<>> /\ Len(current_chunk) + Len(chunk) > max_chunk_size
             THEN <<current_chunk>> \o MergeSegments(Tail(chunks), chunk)
             ELSE IF current_chunk # <<>>
                  THEN MergeSegments(Tail(chunks), current_chunk \o <<NL, NL>> \o chunk)
                  ELSE MergeSegments(Tail(chunks), chunk)

\* the body of _chunk_by_semantic_boundaries once the boundaries are found
ChunksAlong(text, boundaries, base_metadata, text_density) ==
    IF boundaries = <<>>
    THEN LET adjusted == _adjust_chunk_size(text_density)
         IN  ChunkDocs(split_text(text, adjusted.chunk_size, adjusted.chunk_overlap),
                       base_metadata, text_density)
    ELSE ChunkDocs(MergeSegments(Segments(text, boundaries, 1), <<>>),
                   base_metadata, text_density)

_chunk_by_semantic_boundaries(document, has_nlp, dense_at, text_density) ==
    ChunksAlong(document.page_content,
                _find_semantic_boundaries(document.page_content, has_nlp, dense_at),
                document.metadata, text_density)

----------------------------------------------------------------------------
(* SemanticChunker._chunk_parser_document *)

\* the loop over the lines with no regard to the fence state
RECURSIVE ParserSectionsAcrossFences(_, _, _, _)
ParserSectionsAcrossFences(lines, sections, current_section, in_code_block) ==
    IF lines = <<>>
    THEN (IF current_section # <<>>
          THEN Append(sections, JoinLines(current_section)) ELSE sections)
    ELSE LET line == Head(lines)
         IN  IF IsSectionHeader(line) /\ current_section # <<>>
             THEN ParserSectionsAcrossFences(Tail(lines),
                                             Append(sections, JoinLines(current_section)),
                                             <<line>>, in_code_block)
             ELSE ParserSectionsAcrossFences(Tail(lines), sections,
                                             Append(current_section, line), in_code_block)

\* the loop over the lines: [sections, current_section, in_code_block]
RECURSIVE ParserSections(_, _, _, _)
ParserSections(lines, sections, current_section, in_code_block) ==
    IF lines = <<>>
    THEN (IF current_section # <<>>
          THEN Append(sections, JoinLines(current_section)) ELSE sections)
    ELSE LET line == Head(lines)
         IN  IF StartsWith(Strip(line), FENCE)
             THEN ParserSections(Tail(lines), sections, Append(current_section, line),
                                 ~in_code_block)
             ELSE IF in_code_block
             THEN ParserSections(Tail(lines), sections, Append(current_section, line),
                                 in_code_block)
             ELSE IF IsSectionHeader(line) /\ current_section # <<>>
             THEN ParserSections(Tail(lines), Append(sections, JoinLines(current_section)),
                                 <<line>>, in_code_block)
             ELSE ParserSections(Tail(lines), sections, Append(current_section, line),
                                 in_code_block)

\* the sub-chunks of section i, each given its chunk_id
SectionSubChunks(sub_chunks, id, i) ==
    [j \in 1..Len(sub_chunks) |->
        Document(sub_chunks[j].page_content,
                 Put(sub_chunks[j].metadata, "chunk_id",
                     id \o "_section_" \o ToString(i) \o "_chunk_" \o ToString(j - 1)))]

\* result_docs for section i (0-based) of an oversized parser document
ParserSectionDocs(section, i, base_metadata, has_nlp, dense_at, text_density) ==
    IF Len(section) <= max_chunk_size
    THEN <<Document(section,
               Update(Put(Put(base_metadata, "chunk_index", i),
                          "chunk_id", IdOf(base_metadata) \o "_section_" \o ToString(i)),
                      _extract_content_features(section, text_density)))>>
    ELSE SectionSubChunks(
             _chunk_by_semantic_boundaries(
                 Document(section, Put(base_metadata, "section_index", i)),
                 has_nlp, dense_at, text_density),
             IdOf(base_metadata), i)

\* result_docs after extending it by each list in turn
RECURSIVE Flatten(_)
Flatten(lists) == IF lists = <<>> THEN <<>> ELSE Head(lists) \o Flatten(Tail(lists))

\* the loop over the sections
ParserResultDocs(sections, base_metadata, has_nlp, dense_at, text_density) ==
    Flatten([i \in 1..Len(sections) |->
                 ParserSectionDocs(sections[i], i - 1, base_metadata, has_nlp, dense_at,
                                   text_density)])

\* a parser strategy that cuts every document along its sections
_chunk_parser_document_always_sections(document, has_nlp, dense_at, text_density) ==
    ParserResultDocs(ParserSections(SplitLines(document.page_content), <<>>, <<>>, FALSE),
                     document.metadata, has_nlp, dense_at, text_density)

_chunk_parser_document(document, has_nlp, dense_at, text_density) ==
    LET text == document.page_content
        base_metadata == document.metadata
    IN  IF Len(text) <= max_chunk_size
        THEN <<Document(text, Update(base_metadata,
                                     _extract_content_features(text, text_density)))>>
        ELSE ParserResultDocs(ParserSections(SplitLines(text), <<>>, <<>>, FALSE),
                              base_metadata, has_nlp, dense_at, text_density)

----------------------------------------------------------------------------
(* SemanticChunker._chunk_use_case_document *)

\* the vendor names of the any(...) test
VendorNames == {<<"M", "i", "c", "r", "o", "s", "o", "f", "t">>,
                <<"C", "i", "s", "c", "o">>,
                <<"A", "W", "S">>,
                <<"G", "o", "o", "g", "l", "e">>,
                <<"I", "B", "M">>}

\* exabeam_terms["product"], in the order of the list
ProductNames == <<<<"A", "d", "v", "a", "n", "c", "e", "d", " ", "A", "n", "a", "l", "y", "t", "i", "c", "s">>,
                  <<"D", "a", "t", "a", " ", "L", "a", "k", "e">>,
                  <<"C", "a", "s", "e", " ", "M", "a", "n", "a", "g", "e", "m", "e", "n", "t">>,
                  <<"C", "l", "o", "u", "d", " ", "S", "e", "c", "u", "r", "i", "t", "y">>,
                  <<"E", "n", "t", "i", "t", "y", " ", "A", "n", "a", "l", "y", "t", "i", "c", "s">>,
                  <<"T", "h", "r", "e", "a", "t", " ", "H", "u", "n", "t", "e", "r">>>>

\* the update of the section_headers path by a header of level 1 or 2
RECURSIVE PopTo(_, _)
PopTo(section_headers, header_level) ==
    IF Len(section_headers) >= header_level
    THEN PopTo(SubSeq(section_headers, 1, Len(section_headers) - 1), header_level)
    ELSE section_headers

UseCasePath(section_headers, header_level, header_text) ==
    IF header_level = 1 THEN <<header_text>>
    ELSE Append(PopTo(section_headers, header_level), header_text)

Section(text, header, level, path) ==
    [text |-> text, header |-> header, level |-> level, path |-> path]

\* the loop over the lines
RECURSIVE UseCaseSections(_, _, _, _, _, _)
RECURSIVE UseCaseLine(_, _, _, _, _, _, _)
UseCaseSections(lines, sections, current_lines, current_header, current_level, section_headers) ==
    IF lines = <<>>
    THEN (IF current_lines # <<>>
          THEN Append(sections, Section(JoinLines(current_lines), current_header,
                                        current_level, section_headers))
          ELSE sections)
    ELSE UseCaseLine(lines, MatchSection(Head(lines)), sections, current_lines,
                     current_header, current_level, section_headers)

\* one round of the loop, m being the header match of the line
UseCaseLine(lines, m, sections, current_lines, current_header, current_level, section_headers) ==
    IF m.level \in {1, 2}
    THEN UseCaseSections(
             Tail(lines),
             IF current_lines # <<>>
             THEN Append(sections, Section(JoinLines(current_lines), current_header,
                                           current_level, section_headers))
             ELSE sections,
             <<Head(lines)>>, Strip(m.group), m.level,
             UseCasePath(section_headers, m.level, Strip(m.group)))
    ELSE UseCaseSections(Tail(lines), sections, Append(current_lines, Head(lines)),
                         current_header, current_level, section_headers)

\* the vendor and product that the loop over section["path"] leaves in the
\* metadata
RECURSIVE WithVendorProduct(_, _)
WithVendorProduct(md, path) ==
    IF path = <<>> THEN md
    ELSE LET component == Head(path)
             vendor_hit == /\ Get(md, "vendor", <<>>) = <<>>
                           /\ \E v \in VendorNames :
                                  Contains(Lower(component), Lower(v))
             md1 == IF vendor_hit THEN Put(md, "vendor", component) ELSE md
             hits == {k \in 1..Len(ProductNames) :
                         Contains(Lower(component), Lower(ProductNames[k]))}
             md2 == IF hits = {} THEN md1
                    ELSE Put(md1, "product",
                             ProductNames[CHOOSE k \in hits : \A j \in hits : k <= j])
         IN  WithVendorProduct(md2, Tail(path))

\* sub-chunks of a long section made from the document's metadata, not the
\* section's
UseCaseSectionDocsBare(section, i, base_metadata, has_nlp, dense_at, text_density) ==
    IF Strip(section.text) = <<>> THEN <<>>
    ELSE IF Len(section.text) > max_chunk_size
    THEN _chunk_by_semantic_boundaries(Document(section.text, base_metadata),
                                       has_nlp, dense_at, text_density)
    ELSE <<Document(section.text, Put(base_metadata, "section_header", section.header))>>

UseCaseSectionDocs(section, i, base_metadata, has_nlp, dense_at, text_density) ==
    IF Strip(section.text) = <<>> THEN <<>>
    ELSE LET section_metadata ==
                 Update(
                     WithVendorProduct(
                         Put(Put(Put(Put(Put(base_metadata, "chunk_index", i),
                             "chunk_id", IdOf(base_metadata) \o "_section_" \o ToString(i)),
                             "section_header", section.header),
                             "section_level", section.level),
                             "section_path", Join(section.path, <<"/">>)),
                         section.path),
                     _extract_content_features(section.text, text_density))
         IN  IF Len(section.text) > max_chunk_size
             THEN _chunk_by_semantic_boundaries(Document(section.text, section_metadata),
                                                has_nlp, dense_at, text_density)
             ELSE <<Document(section.text, section_metadata)>>

\* the loop over the sections
UseCaseResultDocs(sections, base_metadata, has_nlp, dense_at, text_density) ==
    Flatten([i \in 1..Len(sections) |->
                 UseCaseSectionDocs(sections[i], i - 1, base_metadata, has_nlp, dense_at,
                                    text_density)])

_chunk_use_case_document(document, has_nlp, dense_at, text_density) ==
    UseCaseResultDocs(
        UseCaseSections(SplitLines(document.page_content), <<>>, <<>>, <<>>, 0, <<>>),
        document.metadata, has_nlp, dense_at, text_density)

----------------------------------------------------------------------------
(* Tables, as the data-source strategies recognise them *)

\* re.match(r'^\|.*\|$', line)
IsTableRow(line) == Len(line) >= 2 /\ line[1] = "|" /\ line[Len(line)] = "|"

\* ... and ('--' in line or ':--' in line or '--:' in line)
IsTableSeparator(line) == IsTableRow(line) /\ Contains(line, <<"-", "-">>)

----------------------------------------------------------------------------
(* SemanticChunker._chunk_data_source_fixed_size *)

FixedSizeMin == 1000

FixedSizeMax == 2000

FixedOverlapMax == 300

Max2(a, b) == IF a >= b THEN a ELSE b

FixedSizeMetadata(base_metadata, text, text_density) ==
    LET features == _extract_content_features(text, text_density)
        marked == Put(Put(base_metadata, "content_type", "data_source"),
                      "chunking_method", "fixed_size")
    IN  Update(marked, [k \in DOMAIN features \ {"content_type"} |-> features[k]])

_chunk_data_source_fixed_size(document, text_density) ==
    LET text == document.page_content
        base_metadata == FixedSizeMetadata(document.metadata, text, text_density)
        chunk_size == Min2(FixedSizeMax, Max2(FixedSizeMin, Len(text) \div 3))
        overlap == Min2(FixedOverlapMax, chunk_size \div 3)
        chunks == split_text(text, chunk_size, overlap)
    IN  [i \in 1..Len(chunks) |->
            Document(chunks[i],
                     Put(Put(base_metadata, "chunk_index", i - 1),
                         "chunk_id", IdOf(base_metadata) \o "_chunk_" \o ToString(i - 1)))]

----------------------------------------------------------------------------
(* SemanticChunker._chunk_table_heavy_document *)

TablesPerChunk == 2

LinesPerChunk == 50

\* in_table after the round of the loop for line i: a separator row set it, and
\* every line since is a table line or blank
InTableAfter(lines, i) ==
    \E j \in 1..i :
        /\ IsTableSeparator(lines[j])
        /\ \A k \in j..i : IsTableRow(lines[k]) \/ Strip(lines[k]) = <<>>

\* current_chunk_tables after the round for line i, the chunk having started
\* with line from
TablesSince(lines, from, i) == Cardinality({j \in from..i : IsTableSeparator(lines[j])})

\* the round for line i ends the chunk that started with line from
EndsChunk(lines, from, i) ==
    /\ TablesSince(lines, from, i) >= TablesPerChunk \/ i - from + 1 > LinesPerChunk
    /\ ~InTableAfter(lines, i)

\* the loop over the lines, chunk by chunk: table_chunks for the lines from
\* line from on
RECURSIVE TableChunks(_, _)
TableChunks(lines, from) ==
    LET ends == {i \in from..Len(lines) : EndsChunk(lines, from, i)}
    IN  IF from > Len(lines) THEN <<>>
        ELSE IF ends = {} THEN <<JoinLines(SubSeq(lines, from, Len(lines)))>>
        ELSE LET end == CHOOSE i \in ends : \A j \in ends : i <= j
             IN  <<JoinLines(SubSeq(lines, from, end))>> \o TableChunks(lines, end + 1)

TableChunkDoc(chunk_text, i, base_metadata, text_density) ==
    IF Strip(chunk_text) = <<>> THEN <<>>
    ELSE LET features == _extract_content_features(chunk_text, text_density)
         IN  <<Document(chunk_text,
                   Update(Put(Put(base_metadata, "chunk_index", i),
                              "chunk_id",
                              IdOf(base_metadata) \o "_table_chunk_" \o ToString(i)),
                          [k \in DOMAIN features \ {"content_type"} |-> features[k]]))>>

\* the loop over table_chunks
TableResultDocs(table_chunks, base_metadata, text_density) ==
    Flatten([i \in 1..Len(table_chunks) |->
                 TableChunkDoc(table_chunks[i], i - 1, base_metadata, text_density)])

_chunk_table_heavy_document(document, text_density) ==
    LET text == document.page_content
        base_metadata ==
            Update(Put(Put(document.metadata, "content_type", "data_source"),
                       "table_heavy", TRUE),
                   _extract_content_features(text, text_density))
    IN  TableResultDocs(TableChunks(SplitLines(text), 1), base_metadata,
                        text_density)

----------------------------------------------------------------------------
(* SemanticChunker._chunk_data_source_by_sections *)

VendorPrefix == <<"v", "e", "n", "d", "o", "r", ":">>

ProductPrefix == <<"p", "r", "o", "d", "u", "c", "t", ":">>

\* re.match(r'^<prefix>\s*(.+?)$', line, re.IGNORECASE): group(1).strip(), <<>>
\* when no match
PrefixedValue(line, prefix) ==
    IF StartsWith(Lower(line), prefix) /\ Len(line) > Len(prefix)
    THEN Strip(SubSeq(line, Len(prefix) + 1, Len(line)))
    ELSE <<>>

\* re.match(r'^<mark>+$', line.strip())
IsUnderline(line, mark) ==
    Strip(line) # <<>> /\ \A i \in 1..Len(Strip(line)) : Strip(line)[i] = mark

\* the update of the section_headers path by a header of any level
DataSourcePath(section_headers, header_level, header_text) ==
    IF header_level = 1 THEN <<header_text>>
    ELSE IF header_level <= Len(section_headers)
    THEN Append(PopTo(section_headers, header_level), header_text)
    ELSE Append(section_headers, header_text)

\* the heading line that opens the new section: '#' * level, a blank, the text
RECURSIVE Hashes(_)
Hashes(n) == IF n = 0 THEN <<>> ELSE <<"#">> \o Hashes(n - 1)

HeadingLine(header_level, header_text) == Hashes(header_level) \o <<" ">> \o header_text

\* the header that a line is, given the lines of the section so far:
\* [level, text, underlined]; level 0 when the line is no header
HeaderOrUnderline(m, line, current_lines) ==
    IF m.level > 0
    THEN [level |-> m.level, text |-> Strip(m.group), underlined |-> FALSE]
    ELSE IF current_lines # <<>> /\ IsUnderline(line, "=")
    THEN [level |-> 1, text |-> Strip(current_lines[Len(current_lines)]),
          underlined |-> TRUE]
    ELSE IF current_lines # <<>> /\ IsUnderline(line, "-")
    THEN [level |-> 2, text |-> Strip(current_lines[Len(current_lines)]),
          underlined |-> TRUE]
    ELSE [level |-> 0, text |-> <<>>, underlined |-> FALSE]

DataSourceHeader(line, current_lines) ==
    HeaderOrUnderline(MatchSection(line), line, current_lines)

\* the loop over the lines; st is the record of the loop's variables
RECURSIVE DataSourceSections(_, _)
RECURSIVE DataSourceTableLine(_, _, _)
RECURSIVE DataSourceTextLine(_, _, _)
RECURSIVE DataSourceHeaderLine(_, _, _, _)
DataSourceSections(lines, st) ==
    IF lines = <<>>
    THEN (IF st.current_lines \o st.table_buffer # <<>>
          THEN Append(st.sections,
                      Section(JoinLines(st.current_lines \o st.table_buffer),
                              st.current_header, st.current_level, st.section_headers))
          ELSE st.sections)
    ELSE IF IsTableSeparator(Head(lines))
    THEN DataSourceTableLine(lines, st, Len(st.current_lines))
    ELSE IF st.in_table /\ IsTableRow(Head(lines))
    THEN DataSourceSections(Tail(lines),
                            [st EXCEPT !.table_buffer = Append(@, Head(lines))])
    ELSE IF st.in_table
    THEN DataSourceTextLine(lines,
                            [st EXCEPT !.in_table = FALSE, !.table_buffer = <<>>],
                            st.current_lines \o st.table_buffer)
    ELSE DataSourceTextLine(lines, st, st.current_lines)

\* a separator row: the table marker branch, n lines being in current_lines
DataSourceTableLine(lines, st, n) ==
    DataSourceSections(Tail(lines),
        IF st.table_buffer # <<>>
        THEN [st EXCEPT !.in_table = TRUE, !.table_buffer = Append(@, Head(lines))]
        ELSE IF n > 0 /\ IsTableRow(st.current_lines[n])
        THEN [st EXCEPT !.in_table = TRUE,
                        !.table_buffer = <<st.current_lines[n], Head(lines)>>,
                        !.current_lines = SubSeq(@, 1, n - 1)]
        ELSE [st EXCEPT !.in_table = TRUE])

\* a line outside a table, cur being current_lines once an ended table is
\* flushed into it
DataSourceTextLine(lines, st, cur) ==
    DataSourceHeaderLine(lines, st, cur, DataSourceHeader(Head(lines), cur))

\* the rest of the round, h being the header that the line is
DataSourceHeaderLine(lines, st, cur, h) ==
    IF h.level > 0
    THEN DataSourceSections(Tail(lines),
             [st EXCEPT
                 !.sections =
                     IF (IF h.underlined THEN SubSeq(cur, 1, Len(cur) - 1) ELSE cur) # <<>>
                     THEN Append(@, Section(
                              JoinLines(IF h.underlined THEN SubSeq(cur, 1, Len(cur) - 1)
                                        ELSE cur),
                              st.current_header, st.current_level, st.section_headers))
                     ELSE @,
                 !.current_lines = <<HeadingLine(h.level, h.text)>>,
                 !.current_header = h.text,
                 !.current_level = h.level,
                 !.section_headers = DataSourcePath(@, h.level, h.text)])
    ELSE DataSourceSections(Tail(lines), [st EXCEPT !.current_lines = Append(cur, Head(lines))])

\* content_type from the words of the lower-cased section header; it stays
\* "data_source" when no word of the list occurs
HeaderContentType(header) ==
    IF \/ Contains(header, <<"e", "v", "e", "n", "t">>)
          \/ Contains(header, <<"t", "y", "p", "e">>)
    THEN "event_type"
    ELSE IF \/ Contains(header, <<"p", "a", "r", "s", "e", "r">>)
          \/ Contains(header, <<"p", "a", "r", "s", "i", "n", "g">>)
    THEN "parser"
    ELSE IF \/ Contains(header, <<"c", "o", "n", "f", "i", "g", "u", "r", "a", "t", "i", "o", "n">>)
          \/ Contains(header, <<"s", "e", "t", "u", "p">>)
    THEN "configuration"
    ELSE IF \/ Contains(header, <<"v", "e", "n", "d", "o", "r">>)
          \/ Contains(header, <<"p", "r", "o", "d", "u", "c", "t">>)
    THEN "metadata"
    ELSE IF \/ Contains(header, <<"m", "i", "t", "r", "e">>)
          \/ Contains(header, <<"a", "t", "t", "&", "c", "k">>)
    THEN "mitre"
    ELSE "data_source"

DataSourceSectionDocs(section, i, base_metadata, base_features, has_nlp, dense_at, text_density) ==
    IF Strip(section.text) = <<>> THEN <<>>
    ELSE LET md1 == Put(Put(Put(Put(Put(base_metadata, "chunk_index", i),
                        "chunk_id", IdOf(base_metadata) \o "_section_" \o ToString(i)),
                        "section_header", section.header),
                        "section_level", section.level),
                        "content_type", "data_source")
             md2 == Update([k \in DOMAIN base_features \ DOMAIN md1 |-> base_features[k]],
                           md1)
             md3 == Put(md2, "section_path", Join(section.path, <<"/">>))
             md4 == IF section.header # <<>>
                    THEN Put(md3, "content_type", HeaderContentType(Lower(section.header)))
                    ELSE md3
             features == _extract_content_features(section.text, text_density)
             section_metadata ==
                 Update(md4, [k \in DOMAIN features \ {"content_type"} |-> features[k]])
         IN  IF Len(section.text) > max_chunk_size
             THEN _chunk_by_semantic_boundaries(Document(section.text, section_metadata),
                                                has_nlp, dense_at, text_density)
             ELSE <<Document(section.text, section_metadata)>>

\* what follows the loop over the lines: the fixed-size way out and the loop
\* over the sections
DataSourceResultDocs(document, sections, base_metadata, has_nlp, dense_at, text_density) ==
    IF Len(sections) <= 1 /\ sections[1].header = <<>>
    THEN _chunk_data_source_fixed_size(document, text_density)
    ELSE Flatten([i \in 1..Len(sections) |->
             DataSourceSectionDocs(sections[i], i - 1, base_metadata,
                                   _extract_content_features(document.page_content,
                                                             text_density),
                                   has_nlp, dense_at, text_density)])

_chunk_data_source_by_sections(document, has_nlp, dense_at, text_density) ==
    LET text == document.page_content
        lines == SplitLines(text)
        vendor == IF Len(lines) > 3 THEN PrefixedValue(lines[1], VendorPrefix) ELSE <<>>
        product == IF Len(lines) > 3 THEN PrefixedValue(lines[3], ProductPrefix) ELSE <<>>
        md_v == IF vendor # <<>> THEN Put(document.metadata, "vendor", vendor)
                ELSE document.metadata
        base_metadata == IF product # <<>> THEN Put(md_v, "product", product) ELSE md_v
    IN  DataSourceResultDocs(
            document,
            DataSourceSections(lines,
                [sections |-> <<>>, current_lines |-> <<>>, current_header |-> <<>>,
                 current_level |-> 0, section_headers |-> <<>>, in_table |-> FALSE,
                 table_buffer |-> <<>>]),
            base_metadata, has_nlp, dense_at, text_density)

----------------------------------------------------------------------------
(* SemanticChunker._chunk_data_source_document *)

TableHeavyTenths == 3

\* "data_source" in base_metadata.get("doc_type", "").lower(), for the values of
\* doc_type that occur
IsDataSourceType(doc_type) == doc_type = "data_source"

\* "ds_" in base_metadata.get("file_name", "").lower(), for the values of
\* file_name that occur
IsDataSourceFile(file_name) == file_name = "ds_a.md"

TableLineCount(text) ==
    LET lines == SplitLines(text)
    IN  Cardinality({i \in 1..Len(lines) : IsTableRow(lines[i])})

\* if not chunk_results: fall back to fixed-size chunking
OrFixedSize(chunk_results, document, text_density) ==
    IF chunk_results = <<>>
    THEN _chunk_data_source_fixed_size(document, text_density)
    ELSE chunk_results

_chunk_data_source_document(document, has_nlp, dense_at, text_density) ==
    LET text == document.page_content
        base_metadata == document.metadata
        is_data_source ==
            \/ IsDataSourceType(Get(base_metadata, "doc_type", ""))
            \/ IsDataSourceFile(Get(base_metadata, "file_name", ""))
            \/ Contains(Lower(text), VendorPrefix)
            \/ Contains(Lower(text), ProductPrefix)
        table_lines == TableLineCount(text)
        total_lines == Len(SplitLines(text))
    IN  IF ~is_data_source
        THEN _chunk_by_semantic_boundaries(document, has_nlp, dense_at, text_density)
        ELSE IF table_lines > 0 /\ 10 * table_lines > TableHeavyTenths * total_lines
        THEN _chunk_table_heavy_document(document, text_density)
        ELSE IF Len(text) <= max_chunk_size
        THEN <<Document(text, Update(Put(base_metadata, "content_type", "data_source"),
                                     _extract_content_features(text, text_density)))>>
        ELSE OrFixedSize(_chunk_data_source_by_sections(document, has_nlp, dense_at,
                                                        text_density),
                         document, text_density)

----------------------------------------------------------------------------
(* SemanticChunker.chunk_document *)

\* "<type>" in base_metadata.get("content_type", ""), for the values of
\* content_type that occur
ContentTypeHas(md, type) == Get(md, "content_type", "") = type

chunk_document(document, has_nlp, dense_at, text_density) ==
    LET md == document.metadata
        doc_type == Get(md, "doc_type", "")
    IN  IF Strip(document.page_content) = <<>> THEN <<>>
        ELSE IF doc_type = "parser" \/ ContentTypeHas(md, "parser")
        THEN _chunk_parser_document(document, has_nlp, dense_at, text_density)
        ELSE IF doc_type = "use_case" \/ ContentTypeHas(md, "use_case")
        THEN _chunk_use_case_document(document, has_nlp, dense_at, text_density)
        ELSE IF doc_type = "data_source" \/ ContentTypeHas(md, "data_source")
        THEN _chunk_data_source_document(document, has_nlp, dense_at, text_density)
        ELSE _chunk_by_semantic_boundaries(document, has_nlp, dense_at, text_density)

----------------------------------------------------------------------------
(* DocumentAnalyzer.analyze_documents, for texts of the model's alphabet:    *)
(* the only entity pattern that occurs in such a text is the data source     *)
(* AWS, and no indicator word occurs, so extracted_data_sources is the only  *)
(* extracted_* list that is added, no relationship is found and              *)
(* classify_content takes its default branch.                                *)

Entity(name, type) == [name |-> name, type |-> type]

\* only non-empty entity lists are added to the metadata
WithEntities(md, key, entities) == IF entities = <<>> THEN md ELSE Put(md, key, entities)

\* \w of re: a letter, a digit or an underscore
WordCharacters ==
    Range(UpperLetters) \cup Range(LowerLetters)
        \cup {"0", "1", "2", "3", "4", "5", "6", "7", "8", "9", "_"}

\* where \bAWS\b matches in the text, with re.IGNORECASE
AwsMatches(text) ==
    {i \in 1..(Len(text) - 2) :
        /\ Lower(SubSeq(text, i, i + 2)) = <<"a", "w", "s">>
        /\ i > 1 => text[i - 1] \notin WordCharacters
        /\ i + 2 < Len(text) => text[i + 3] \notin WordCharacters}

\* extract_entities(text)["data_sources"]: the matches as written in the text,
\* of which the first one with a given lowered name is kept; the named-entity
\* recogniser of NLTK, where there is one, reports no entity of its own
extract_data_sources(text) ==
    IF AwsMatches(text) = {} THEN <<>>
    ELSE LET i == CHOOSE m \in AwsMatches(text) : \A n \in AwsMatches(text) : m <= n
         IN  <<Entity(SubSeq(text, i, i + 2), "data source")>>

\* classify_content: scores in hundredths
DefaultClassifications ==
    [overview |-> 0, technical |-> 40, configuration |-> 0, parser |-> 0,
     use_case |-> 0, reference |-> 0]

enrich_document(document) ==
    IF Strip(document.page_content) = <<>> THEN document
    ELSE Document(document.page_content,
                  Put(Put(WithEntities(document.metadata, "extracted_data_sources",
                                       extract_data_sources(document.page_content)),
                          "content_classifications", DefaultClassifications),
                      "primary_content_type", "technical"))

\* the metadata keys _cross_reference_documents indexes, with their key type
IndexedEntityTypes ==
    [extracted_data_sources |-> "data_source",
     extracted_parsers |-> "parser",
     extracted_use_cases |-> "use_case",
     extracted_mitre |-> "mitre_technique"]

\* the keys (key type, entity["name"].lower()) a document is indexed under and
\* looked up by; of extracted_mitre only the entities of type "technique"
EntityKeys(md) ==
    {<<IndexedEntityTypes[t], Lower(md[t][k].name)>> :
        <<t, k>> \in {<<t, k>> \in (DOMAIN IndexedEntityTypes \cap DOMAIN md) \X (1..3) :
                         /\ k <= Len(md[t])
                         /\ t = "extracted_mitre" => md[t][k].type = "technique"}}

\* related_docs of the i-th document, as indexes from 1
RelatedDocs(docs, i) ==
    {j \in 1..Len(docs) :
        j # i /\ EntityKeys(docs[j].metadata) \cap EntityKeys(docs[i].metadata) # {}}

RelatedEntry(docs, j) ==
    [id |-> Get(docs[j].metadata, "chunk_id", "doc_" \o ToString(j - 1)),
     similarity |-> "entity",
     primary_content_type |-> Get(docs[j].metadata, "primary_content_type", "unknown")]

_cross_reference_documents(docs) ==
    [i \in 1..Len(docs) |->
        IF RelatedDocs(docs, i) = {} THEN docs[i]
        ELSE Document(docs[i].page_content,
                      Put(docs[i].metadata, "related_documents",
                          [k \in 1..Cardinality(RelatedDocs(docs, i)) |->
                              RelatedEntry(docs, SortedSeq(RelatedDocs(docs, i))[k])]))]

analyze_documents(docs) ==
    _cross_reference_documents([i \in 1..Len(docs) |-> enrich_document(docs[i])])

----------------------------------------------------------------------------
(* SemanticDocumentChunker *)

critical_fields ==
    <<"doc_type", "content_type", "content_section", "source_path", "id", "title",
      "vendor", "product", "mitre_tactics", "mitre_techniques">>

\* _ensure_metadata_compatibility; index is what int(chunk_id.split("_chunk_")[-1])
\* yields for the chunk_id that split_documents formatted from index
_ensure_metadata_compatibility(source_metadata, chunk_metadata, index) ==
    LET missing == (Range(critical_fields) \cap DOMAIN source_metadata)
                       \ DOMAIN chunk_metadata
        copied == Update(chunk_metadata, [k \in missing |-> source_metadata[k]])
    IN  IF ~Has(copied, "chunk_index") /\ Has(copied, "chunk_id")
        THEN Put(copied, "chunk_index", index)
        ELSE copied

\* step 2 of the loop body of split_documents: chunk_id and compatibility
WithChunkIds(found, source_metadata) ==
    [i \in 1..Len(found) |->
        Document(found[i].page_content,
                 _ensure_metadata_compatibility(
                     source_metadata,
                     IF Has(found[i].metadata, "chunk_id") THEN found[i].metadata
                     ELSE Put(found[i].metadata, "chunk_id",
                              IdOf(source_metadata) \o "_chunk_" \o ToString(i - 1)),
                     i - 1))]

\* step 3: if chunks: chunks = self.document_analyzer.analyze_documents(chunks)
Analyzed(found) == IF found # <<>> THEN analyze_documents(found) ELSE found

\* one round of the loop of split_documents over a non-blank document: the
\* chunks that are appended to all_chunks
SplitDocument(doc, has_nlp, answers) ==
    Analyzed(WithChunkIds(chunk_document(doc, has_nlp, answers.dense_at,
                                         answers.text_density),
                          doc.metadata))

----------------------------------------------------------------------------
(* The documents the chunker is run on *)

H1Line == <<"#", " ", "a">>

H2Line == <<"#", "#", " ", "b">>

SentenceLine == <<"a", "b", ".">>

BlankLine == <<>>

RowLine == <<"|", "a", "|">>

SeparatorLine == <<"|", "-", "-", "|">>

\* a line longer than max_chunk_size
LongLine == <<"a", "b", "c", "d", "e", "f", "g", "h", "i">>

\* the line under an underlined level-1 heading
UnderlineLine == <<"=", "=">>

LineTemplates ==
    {H1Line, H2Line, FENCE, SentenceLine, BlankLine, RowLine, SeparatorLine, LongLine}

Texts == {JoinLines(ls) : ls \in SeqsUpTo(LineTemplates, MaxLines) \ {<<>>}}

MetadataChoices ==
    {EmptyMetadata,
     [id |-> "a"],
     [id |-> "a", doc_type |-> "use_case"],
     [id |-> "a", doc_type |-> "parser"],
     [doc_type |-> "data_source"],
     [content_type |-> "parser", title |-> "t"]}

RichDocs == {Document(t, md) : t \in Texts, md \in MetadataChoices}

\* the documents that are chunked twice
RepeatDocs ==
    {Document(JoinLines(ls), md) :
        ls \in SeqsUpTo(LineTemplates, RepeatLines) \ {<<>>}, md \in MetadataChoices}

\* the documents that batches are made of
PoolDocs ==
    {Document(SentenceLine, EmptyMetadata),
     Document(H1Line, [id |-> "a"]),
     Document(<<" ", NL>>, EmptyMetadata),
     Document(JoinLines(<<H1Line, LongLine, H2Line, LongLine>>),
              [id |-> "a", doc_type |-> "use_case"]),
     Document(SentenceLine, [id |-> "a", doc_type |-> "parser"])}

\* the line under an underlined level-2 heading
DashLine == <<"-", "-">>

\* data-source documents with underlined headings
UnderlinedTexts ==
    {JoinLines(ls) :
        ls \in SeqsUpTo({LongLine, SentenceLine, UnderlineLine, DashLine, H1Line,
                         BlankLine}, MaxLines) \ {<<>>}}

UnderlinedDocs == {Document(t, [doc_type |-> "data_source"]) : t \in UnderlinedTexts}

\* densities in tenths: a medium and a high one
Densities == {5, 8}

\* _analyze_content_density answers 0.5 without NLTK, and no boundary is found
AnswersFor(has_nlp) ==
    IF has_nlp
    THEN {[dense_at |-> d, text_density |-> t] : d \in SUBSET (1..MaxDense), t \in Densities}
    ELSE {[dense_at |-> {}, text_density |-> 5]}

----------------------------------------------------------------------------
(* One split_documents call on a constructed SemanticDocumentChunker *)

SplitStart ==
    /\ RerankerIdle
    /\ nlp \in BOOLEAN
    /\ nlp_answers \in [1..Len(batch) -> AnswersFor(nlp)]
    /\ doc_index = 1
    /\ doc_chunks = <<>>
    /\ all_chunks = <<>>
    /\ split_pc = "loop"
    /\ rerun = NotRepeated
    /\ OthersIdle

\* a batch of one document
ChunkerInit ==
    /\ batch \in {<<d>> : d \in RichDocs}
    /\ SplitStart

\* a batch of one data-source document
DataSourceInit ==
    /\ batch \in {<<d>> : d \in UnderlinedDocs}
    /\ SplitStart

\* a batch of one document, to be chunked twice
RepeatInit ==
    /\ batch \in {<<d>> : d \in RepeatDocs}
    /\ SplitStart

\* a batch of several documents
SplitInit ==
    /\ batch \in SeqsUpTo(PoolDocs, MaxBatch)
    /\ SplitStart

\* a loop that ends at the first empty document instead of going on
SkipAndStop ==
    /\ split_pc = "loop"
    /\ doc_index <= Len(batch)
    /\ Strip(batch[doc_index].page_content) = <<>>
    /\ doc_index' = Len(batch) + 1
    /\ rerun' = NotRepeated
    /\ UNCHANGED <<nlp, batch, nlp_answers, doc_chunks, all_chunks, split_pc>>
    /\ UNCHANGED <<rvars, ovars>>

\* if not doc.page_content.strip(): continue
SkipEmptyDocument ==
    /\ split_pc = "loop"
    /\ doc_index <= Len(batch)
    /\ Strip(batch[doc_index].page_content) = <<>>
    /\ doc_index' = doc_index + 1
    /\ rerun' = NotRepeated
    /\ UNCHANGED <<nlp, batch, nlp_answers, doc_chunks, all_chunks, split_pc>>
    /\ UNCHANGED <<rvars, ovars>>

\* a chunker that trims the text of the document it was given, in place
DocumentAfterTrimmed(document, chunks) ==
    Document(Strip(document.page_content), document.metadata)

\* the document as a chunk_document call leaves it: the call reads page_content
\* and works on document.metadata.copy(); every chunk is a new Document
DocumentAfter(document, chunks) == document

\* steps 1 to 3 of the loop body and all_chunks.extend(chunks)
ChunkOneDocument ==
    /\ split_pc = "loop"
    /\ doc_index <= Len(batch)
    /\ Strip(batch[doc_index].page_content) # <<>>
    /\ doc_chunks' = SplitDocument(batch[doc_index], nlp, nlp_answers[doc_index])
    /\ all_chunks' = all_chunks \o doc_chunks'
    /\ batch' = [batch EXCEPT ![doc_index] = DocumentAfter(@, doc_chunks')]
    /\ doc_index' = doc_index + 1
    /\ rerun' = NotRepeated
    /\ UNCHANGED <<nlp, nlp_answers, split_pc>>
    /\ UNCHANGED <<rvars, ovars>>

\* return all_chunks
ReturnAllChunks ==
    /\ split_pc = "loop"
    /\ doc_index > Len(batch)
    /\ split_pc' = "returned"
    /\ UNCHANGED <<nlp, batch, nlp_answers, doc_index, doc_chunks, all_chunks, rerun>>
    /\ UNCHANGED <<rvars, ovars>>

\* the caller gives the document processed last to the same chunker once more;
\* NLTK, a function of the text, answers as it did
ChunkDocumentAgain ==
    /\ split_pc = "loop"
    /\ doc_index > 1
    /\ Strip(batch[doc_index - 1].page_content) # <<>>
    /\ ~rerun.done
    /\ rerun' = [done |-> TRUE,
                  chunks |-> SplitDocument(batch[doc_index - 1], nlp,
                                           nlp_answers[doc_index - 1])]
    /\ UNCHANGED <<nlp, batch, nlp_answers, doc_index, doc_chunks, all_chunks, split_pc>>
    /\ UNCHANGED <<rvars, ovars>>

ChunkerNext ==
    \/ SkipEmptyDocument
    \/ ChunkOneDocument
    \/ ReturnAllChunks

\* split_documents, and the caller repeating the call for one document
RepeatNext ==
    \/ ChunkerNext
    \/ ChunkDocumentAgain

SpecChunker == ChunkerInit /\ [][ChunkerNext]_vars

SpecSplit == SplitInit /\ [][ChunkerNext]_vars

SpecDataSource == DataSourceInit /\ [][ChunkerNext]_vars

SpecRepeat == RepeatInit /\ [][RepeatNext]_vars

----------------------------------------------------------------------------
(* DocumentAnalyzer._cross_reference_documents on documents that            *)
(* enrich_document has given their entity lists; doc_chunks holds them      *)

\* extract_entities keeps the text as matched and removes duplicates by lowered name
DataSourceLists ==
    {<<>>, <<Entity(<<"A", "W", "S">>, "data source")>>,
     <<Entity(<<"a", "w", "s">>, "data source")>>}

ProductLists ==
    {<<>>, <<Entity(<<"D", "a", "t", "a", " ", "L", "a", "k", "e">>, "Exabeam product")>>}

\* re.match(r'T\d{4}', ...) tells technique from tactic, without IGNORECASE
MitreLists ==
    {<<>>, <<Entity(<<"T", "1", "0", "5", "9">>, "technique")>>,
     <<Entity(<<"t", "1", "0", "5", "9">>, "tactic")>>}

EnrichedDocs(i) ==
    {Document(<<"x">>,
              WithEntities(WithEntities(WithEntities(
                  [chunk_id |-> "doc_chunk_" \o ToString(i - 1),
                   primary_content_type |-> "technical"],
                  "extracted_data_sources", ds),
                  "extracted_products", pr),
                  "extracted_mitre", mi)) :
        ds \in DataSourceLists, pr \in ProductLists, mi \in MitreLists}

CrossReferenceInit ==
    /\ RerankerIdle
    /\ nlp = FALSE
    /\ batch = <<>>
    /\ nlp_answers = <<>>
    /\ doc_index = 1
    /\ \E n \in 1..MaxChunks :
           doc_chunks \in {f \in [1..n -> UNION {EnrichedDocs(i) : i \in 1..n}] :
                              \A i \in 1..n : f[i] \in EnrichedDocs(i)}
    /\ all_chunks = <<>>
    /\ split_pc = "enriched"
    /\ rerun = NotRepeated
    /\ OthersIdle

\* return self._cross_reference_documents(enriched_documents)
CrossReferenceDocuments ==
    /\ split_pc = "enriched"
    /\ doc_chunks' = _cross_reference_documents(doc_chunks)
    /\ split_pc' = "cross_referenced"
    /\ UNCHANGED <<nlp, batch, nlp_answers, doc_index, all_chunks, rerun>>
    /\ UNCHANGED <<rvars, ovars>>

CrossReferenceNext == CrossReferenceDocuments

SpecCrossReference == CrossReferenceInit /\ [][CrossReferenceNext]_vars

----------------------------------------------------------------------------
(* ChunkQualityEvaluator.evaluate_coherence.  Scores are in thousandths,    *)
(* similarities and the structural score in hundredths.  What NLTK makes of *)
(* the text is an input: the number of sentences, the Jaccard similarity of *)
(* each pair of adjacent sentences that both have tokens left, and whether  *)
(* a call into NLTK raises.                                                 *)

Conjunctions ==
    {<<"a", "n", "d">>, <<"b", "u", "t">>, <<"o", "r">>, <<"s", "o">>,
     <<"b", "e", "c", "a", "u", "s", "e">>, <<"h", "o", "w", "e", "v", "e", "r">>}

\* text.split()[0]
RECURSIVE FirstWord(_)
FirstWord(text) ==
    IF LStrip(text) # text THEN FirstWord(LStrip(text))
    ELSE IF text = <<>> \/ IsSpace(Head(text)) THEN <<>>
    ELSE <<Head(text)>> \o FirstWord(Tail(text))

IsUpper(c) == \E k \in 1..26 : UpperLetters[k] = c

\* not text[0].isupper() and text.split()[0].lower() in [...]
StartsMidSentence(text) ==
    ~IsUpper(text[1]) /\ Lower(FirstWord(text)) \in Conjunctions

\* not text.rstrip()[-1] in ['.', '!', '?', ':', ';']
EndsMidSentence(text) ==
    RStrip(text)[Len(RStrip(text))] \notin {".", "!", "?", ":", ";"}

\* a line matches ^\s*[-*+]\s+
IsListItem(line) ==
    LET rest == LStrip(line)
    IN  Len(rest) >= 2 /\ rest[1] \in {"-", "*", "+"} /\ IsSpace(rest[2])

\* text.count('\n- ')
RECURSIVE CountDashItems(_)
CountDashItems(s) ==
    IF Len(s) < 3 THEN 0
    ELSE IF StartsWith(s, <<NL, "-", " ">>) THEN 1 + CountDashItems(SubSeq(s, 4, Len(s)))
    ELSE CountDashItems(Tail(s))

BrokenList(text) ==
    /\ \E i \in 1..Len(SplitLines(text)) : IsListItem(SplitLines(text)[i])
    /\ CountDashItems(text) <= 1

Penalty(applies, hundredths) == IF applies THEN hundredths ELSE 0

structural_score(text) ==
    100 - Penalty(StartsMidSentence(text), 20) - Penalty(EndsMidSentence(text), 20)
        - Penalty(CountFences(text) % 2 # 0, 30) - Penalty(BrokenList(text), 20)

RECURSIVE Sum(_)
Sum(s) == IF s = <<>> THEN 0 ELSE Head(s) + Sum(Tail(s))

avg_similarity(similarities) ==
    IF similarities = <<>> THEN 50 ELSE Sum(similarities) \div Len(similarities)

Default_coherence == 500

Single_sentence_coherence == 700

evaluate_coherence(text, has_nlp, tokenized) ==
    IF text = <<>> \/ ~has_nlp THEN Default_coherence
    ELSE IF tokenized.raises THEN Default_coherence
    ELSE IF tokenized.sentences <= 1 THEN Single_sentence_coherence
    \* text.split()[0] raises on a text of whitespace only; the except branch
    ELSE IF Strip(text) = <<>> THEN Default_coherence
    ELSE Max2(100, Min2(1000, 7 * avg_similarity(tokenized.similarities)
                                  + 3 * structural_score(text)))

\* the texts that are evaluated
ItemLine == <<"-", " ", "a">>

ConjunctionLine == <<"a", "n", "d", " ", "x">>

CapitalSentenceLine == <<"A", "b", ".">>

CoherenceTexts ==
    {JoinLines(ls) :
        ls \in SeqsUpTo({FENCE, CapitalSentenceLine, ConjunctionLine, ItemLine},
                        MaxLines) \ {<<>>}}

\* similarities of adjacent sentences, in hundredths
Similarities == {0, 50, 100}

Tokenizations ==
    {[sentences |-> n, similarities |-> sims, raises |-> r] :
        n \in 0..(MaxPairs + 1), sims \in SeqsUpTo(Similarities, MaxPairs), r \in BOOLEAN}

CoherenceInit ==
    /\ RerankerIdle
    /\ ChunkerIdle
    /\ ExabeamIdle /\ ChunkingIdle /\ NlpInitIdle /\ IngestionIdle
    /\ evaluation \in
           {[pc |-> "called", text |-> t, nlp |-> n, tokenized |-> k] :
               t \in CoherenceTexts, n \in BOOLEAN,
               k \in {k \in Tokenizations : Len(k.similarities) < Max2(k.sentences, 1)}}

\* one evaluate_coherence(text) call
EvaluateCoherence ==
    /\ evaluation.pc = "called"
    /\ evaluation' = [pc |-> "returned",
                      text |-> evaluation.text,
                      nlp |-> evaluation.nlp,
                      tokenized |-> evaluation.tokenized,
                      score |-> evaluate_coherence(evaluation.text, evaluation.nlp,
                                                    evaluation.tokenized)]
    /\ UNCHANGED <<rvars, cvars, but_evaluation>>

CoherenceNext == EvaluateCoherence

SpecCoherence == CoherenceInit /\ [][CoherenceNext]_vars
----------------------------------------------------------------------------
(* ExabeamChunker (exabeam_chunker.py).  A Document is an object: a chunk is *)
(* either one of the caller's documents (ref is its position in the list the *)
(* caller passed) or a Document the chunker created (ref = 0).               *)

NewDocument(doc) == [ref |-> 0, doc |-> doc]

SameDocument(i, doc) == [ref |-> i, doc |-> doc]

\* _chunk_recursively: the pieces of recursive_splitter.split_text, each a new
\* Document with a copy of the metadata
_chunk_recursively(document) ==
    LET pieces == split_text(document.page_content, ChunkSize, ChunkOverlap)
    IN  [k \in 1..Len(pieces) |-> NewDocument(Document(pieces[k], document.metadata))]

\* headers_to_split_on: "#" to "####", followed by a blank or the end of the line
HeadingLevel(line) ==
    LET n == LeadingHashes(line)
    IN  IF n \in 1..4 /\ (Len(line) = n \/ line[n + 1] = " ") THEN n ELSE 0

HeadingKey(level) ==
    CASE level = 1 -> "heading1"
      [] level = 2 -> "heading2"
      [] level = 3 -> "heading3"
      [] OTHER     -> "heading4"

\* the headers that stay open when a header of this level starts
HeadersAbove(headers, level) ==
    [k \in {HeadingKey(l) : l \in 1..(level - 1)} \cap DOMAIN headers |-> headers[k]]

MarkdownChunk(lines, headers) ==
    IF lines = <<>> THEN <<>>
    ELSE <<[page_content |-> JoinLines(lines), metadata |-> headers]>>

\* MarkdownHeaderTextSplitter(strip_headers=False).split_text, by its contract:
\* the non-blank lines of the text grouped under the header line that opens
\* them, each group carrying the headers open at that point
RECURSIVE MarkdownSections(_, _, _, _)
MarkdownSections(lines, i, current, headers) ==
    IF i > Len(lines) THEN MarkdownChunk(current, headers)
    ELSE LET line == Strip(lines[i])
             level == HeadingLevel(line)
         IN  IF level > 0
             THEN MarkdownChunk(current, headers)
                  \o MarkdownSections(lines, i + 1, <<line>>,
                                      Put(HeadersAbove(headers, level), HeadingKey(level),
                                          Strip(Slice(line, level, Len(line)))))
             ELSE IF line = <<>>
                  THEN MarkdownSections(lines, i + 1, current, headers)
                  ELSE MarkdownSections(lines, i + 1, Append(current, line), headers)

\* final_chunks: a chunk over chunk_size is split again, each piece a new
\* Document with a copy of the chunk's metadata
FinalChunks(chunk) ==
    IF Len(chunk.page_content) > ChunkSize
    THEN LET smaller_chunks == split_text(chunk.page_content, ChunkSize, ChunkOverlap)
         IN  [j \in 1..Len(smaller_chunks) |->
                 NewDocument(Document(smaller_chunks[j], chunk.metadata))]
    ELSE <<NewDocument(chunk)>>

\* _chunk_by_markdown_headers, for texts on which the two splitters do not
\* raise: each chunk of the header splitter a new Document with the document's
\* metadata and the chunk's headers
MarkdownHeaderDocs(document, md_chunks) ==
    LET chunks == [k \in 1..Len(md_chunks) |->
                      Document(md_chunks[k].page_content,
                               Update(document.metadata, md_chunks[k].metadata))]
    IN  Flatten([k \in 1..Len(chunks) |-> FinalChunks(chunks[k])])

_chunk_by_markdown_headers(document) ==
    MarkdownHeaderDocs(document,
                       MarkdownSections(SplitLines(document.page_content), 1, <<>>,
                                        EmptyMetadata))

\* _chunk_as_single_document: a document within chunk_size is returned itself
_chunk_as_single_document(document, i) ==
    IF Len(document.page_content) <= ChunkSize
    THEN <<SameDocument(i, document)>>
    ELSE _chunk_recursively(document)

\* doc_type_chunkers.get(doc_type, doc_type_chunkers["default"]) for the
\* document types "parser" and those that take the default strategy
Chunker(document, i) ==
    IF Get(document.metadata, "doc_type", "default") = "parser"
    THEN _chunk_as_single_document(document, i)
    ELSE _chunk_by_markdown_headers(document)

\* the first loop of chunk_documents, for documents whose strategy does not
\* raise: all_chunks extended by the chunks of each document in turn
CollectChunks(docs) == Flatten([i \in 1..Len(docs) |-> Chunker(docs[i], i)])

\* the second loop: chunk_id and total_chunks written into each chunk's metadata
NumberChunks(chunks) ==
    [k \in 1..Len(chunks) |->
        [ref |-> chunks[k].ref,
         doc |-> Document(chunks[k].doc.page_content,
                          Put(Put(chunks[k].doc.metadata, "chunk_id", k - 1),
                              "total_chunks", Len(chunks)))]]

\* the caller's documents once the chunks are numbered: a document that is
\* itself a chunk has the chunk's metadata
DocumentsAfterNumbering(docs, numbered) ==
    [i \in 1..Len(docs) |->
        IF \E k \in 1..Len(numbered) : numbered[k].ref = i
        THEN numbered[CHOOSE k \in 1..Len(numbered) : numbered[k].ref = i].doc
        ELSE docs[i]]

----------------------------------------------------------------------------
(* Calls of ExabeamChunker(ChunkSize, ChunkOverlap).chunk_documents *)

ShortLine == <<"a", "b">>

ExabeamTexts ==
    {JoinLines(ls) : ls \in SeqsUpTo({H1Line, H2Line, SentenceLine, ShortLine, LongLine}, 2) \ {<<>>}}

ExabeamMetadata == {[source |-> "s"], [source |-> "s", doc_type |-> "parser"],
                    [source |-> "s", doc_type |-> "reference"]}

ExabeamDocs == {Document(t, md) : t \in ExabeamTexts, md \in ExabeamMetadata}

ExabeamInit ==
    /\ RerankerIdle
    /\ ChunkerIdle
    /\ EvaluationIdle /\ ChunkingIdle /\ NlpInitIdle /\ IngestionIdle
    /\ \E docs \in SeqsUpTo(ExabeamDocs, MaxBatch) \ {<<>>} :
         exabeam = [pc |-> "called", given |-> docs, documents |-> docs,
                    all_chunks |-> <<>>]

ChunkDocumentsStep(numbered) ==
    exabeam' = [exabeam EXCEPT
                  !.pc = "returned",
                  !.all_chunks = [k \in 1..Len(numbered) |-> numbered[k].doc],
                  !.documents = DocumentsAfterNumbering(exabeam.documents, numbered)]

\* one chunk_documents(documents) call
ChunkDocuments ==
    /\ exabeam.pc = "called"
    /\ ChunkDocumentsStep(NumberChunks(CollectChunks(exabeam.documents)))
    /\ UNCHANGED <<rvars, cvars, but_exabeam>>

ExabeamNext == ChunkDocuments

SpecExabeam == ExabeamInit /\ [][ExabeamNext]_vars

----------------------------------------------------------------------------
(* Calls of SemanticChunker._chunk_by_semantic_boundaries on a document of    *)
(* no particular type                                                         *)

BoundaryDocs == {Document(t, EmptyMetadata) : t \in UnderlinedTexts}

BoundariesInit ==
    /\ RerankerIdle
    /\ ChunkerIdle
    /\ EvaluationIdle /\ ExabeamIdle /\ NlpInitIdle /\ IngestionIdle
    /\ \E document \in BoundaryDocs, has_nlp \in BOOLEAN :
         \E answers \in AnswersFor(has_nlp) :
             chunking = [pc |-> "called", document |-> document, nlp |-> has_nlp,
                         answers |-> answers, boundaries |-> <<>>, result_docs |-> <<>>]

ChunkBySemanticBoundariesStep(text, boundaries) ==
    chunking' = [chunking EXCEPT
                   !.pc = "returned",
                   !.boundaries = boundaries,
                   !.result_docs = ChunksAlong(text, boundaries, chunking.document.metadata,
                                               chunking.answers.text_density)]

\* one _chunk_by_semantic_boundaries(document) call
ChunkBySemanticBoundaries ==
    /\ chunking.pc = "called"
    /\ ChunkBySemanticBoundariesStep(
           chunking.document.page_content,
           _find_semantic_boundaries(chunking.document.page_content, chunking.nlp,
                                     chunking.answers.dense_at))
    /\ UNCHANGED <<rvars, cvars, but_chunking>>

BoundariesNext == ChunkBySemanticBoundaries

SpecBoundaries == BoundariesInit /\ [][BoundariesNext]_vars

----------------------------------------------------------------------------
(* One split_documents call on a table-heavy data-source document: a table,  *)
(* some lines of text, and a second table                                    *)

\* data rows of the first table
MaxRows == 47

Rows(n) == [i \in 1..n |-> RowLine]

TableGaps == {<<SentenceLine>>, <<BlankLine>>, <<SentenceLine, SentenceLine>>}

TableLines(rows, gap) ==
    <<RowLine, SeparatorLine>> \o Rows(rows) \o gap \o <<RowLine, SeparatorLine, RowLine>>

TableDocs ==
    {Document(JoinLines(TableLines(rows, gap)), [doc_type |-> "data_source"]) :
        rows \in 0..MaxRows, gap \in TableGaps}
    \cup {Document(BlankLine, [doc_type |-> "data_source"])}

TablesInit ==
    /\ batch \in {<<d>> : d \in TableDocs}
    /\ SplitStart

SpecTables == TablesInit /\ [][ChunkerNext]_vars

----------------------------------------------------------------------------
(* Calls of SemanticChunker._chunk_parser_document on a parser document that *)
(* is longer than max_chunk_size                                             *)

\* lines of an oversized parser document
ParserLines == 4

\* a fence line with leading blanks
IndentedFence == <<" ">> \o FENCE

ParserTexts ==
    {t \in {JoinLines(ls) :
               ls \in SeqsUpTo({FENCE, IndentedFence, H1Line, SentenceLine, BlankLine},
                               ParserLines) \ {<<>>}} :
        Len(t) > max_chunk_size}

ParserDocs == {Document(t, [id |-> "a", doc_type |-> "parser"]) : t \in ParserTexts}

ParserInit ==
    /\ RerankerIdle
    /\ ChunkerIdle
    /\ EvaluationIdle /\ ExabeamIdle /\ NlpInitIdle /\ IngestionIdle
    /\ \E document \in ParserDocs, has_nlp \in BOOLEAN :
         \E answers \in AnswersFor(has_nlp) :
             chunking = [pc |-> "called", document |-> document, nlp |-> has_nlp,
                         answers |-> answers, sections |-> <<>>, result_docs |-> <<>>]

ChunkParserDocumentStep(sections) ==
    chunking' = [chunking EXCEPT
                   !.pc = "returned",
                   !.sections = sections,
                   !.result_docs = ParserResultDocs(sections, chunking.document.metadata,
                                                    chunking.nlp, chunking.answers.dense_at,
                                                    chunking.answers.text_density)]

\* one _chunk_parser_document(document) call on an oversized document
ChunkParserDocument ==
    /\ chunking.pc = "called"
    /\ ChunkParserDocumentStep(
           ParserSections(SplitLines(chunking.document.page_content), <<>>, <<>>, FALSE))
    /\ UNCHANGED <<rvars, cvars, but_chunking>>

ParserNext == ChunkParserDocument

SpecParser == ParserInit /\ [][ParserNext]_vars

----------------------------------------------------------------------------
(* One split_documents call on a batch of documents that name a data source *)

AwsUpper == <<"A", "W", "S">>

AwsLower == <<"a", "w", "s">>

\* documents that name the data source AWS, one that names none and a blank one
EntityDocs ==
    {Document(t, [id |-> i]) : t \in {AwsUpper, AwsLower}, i \in {"a", "b"}}
        \cup {Document(SentenceLine, [id |-> "a"]), Document(<<" ">>, [id |-> "b"])}

BatchInit ==
    /\ batch \in SeqsUpTo(EntityDocs, MaxBatch)
    /\ SplitStart

SpecBatch == BatchInit /\ [][ChunkerNext]_vars

----------------------------------------------------------------------------
(* The constructors of SemanticChunker, DocumentAnalyzer and                 *)
(* ChunkQualityEvaluator, called by the workers of one process               *)

\* instances constructed in one process
MaxInstances == 3

Workers == {1, 2}

NlpClasses == {"SemanticChunker", "DocumentAnalyzer", "ChunkQualityEvaluator"}

\* no worker is in a constructor, nothing has been constructed and
\* _initialize_nlp has not run
NlpInitStart ==
    [pc |-> "running",
     constructing |-> [w \in Workers |-> "none"],
     runs |-> 0,
     instances |-> <<>>]

NlpInit ==
    /\ RerankerIdle
    /\ ChunkerIdle
    /\ EvaluationIdle /\ ExabeamIdle /\ ChunkingIdle /\ IngestionIdle
    /\ nlp_init = NlpInitStart

\* the instances constructed and under construction
Constructions ==
    Len(nlp_init.instances)
        + Cardinality({w \in Workers : nlp_init.constructing[w] # "none"})

\* __init__ up to self.nlp = self._initialize_nlp(): the worker enters
\* _initialize_nlp, which has no test of an earlier run and takes no lock
EnterInitializeNlp(w, cls) ==
    /\ nlp_init.pc = "running"
    /\ nlp_init.constructing[w] = "none"
    /\ Constructions < MaxInstances
    /\ nlp_init' = [nlp_init EXCEPT !.constructing[w] = cls, !.runs = @ + 1]
    /\ UNCHANGED <<rvars, cvars, but_nlp_init>>

\* the nltk.download calls are over: _initialize_nlp returns nltk, or None when
\* one of them raised, and __init__ runs to its end
ReturnFromInitializeNlp(w, has_nlp) ==
    /\ nlp_init.pc = "running"
    /\ nlp_init.constructing[w] # "none"
    /\ nlp_init' = [nlp_init EXCEPT
                      !.constructing[w] = "none",
                      !.instances = Append(@, [class |-> nlp_init.constructing[w],
                                               nlp |-> has_nlp])]
    /\ UNCHANGED <<rvars, cvars, but_nlp_init>>

NlpNext ==
    \/ \E w \in Workers, cls \in NlpClasses : EnterInitializeNlp(w, cls)
    \/ \E w \in Workers, has_nlp \in BOOLEAN : ReturnFromInitializeNlp(w, has_nlp)

SpecNlp == NlpInit /\ [][NlpNext]_vars

----------------------------------------------------------------------------
(* One _ingest_documents_in_batches call of a constructed                    *)
(* ExabeamIngestionPipeline (ingest_documents of scripts/db has the same     *)
(* loop over a stats dict of its own); documents are numbered from 1         *)

\* documents passed to one call
MaxIngested == 5

\* the largest batch_size
MaxBatchSize == 3

\* self.stats as the constructor sets it: the counters
NewStats == [successful_chunks |-> 0, failed_chunks |-> 0, embedding_errors |-> 0]

IngestionInit ==
    /\ RerankerIdle
    /\ ChunkerIdle
    /\ EvaluationIdle /\ ExabeamIdle /\ ChunkingIdle /\ NlpInitIdle
    /\ \E n \in 0..MaxIngested, batch_size \in 1..MaxBatchSize :
           ingestion = [pc |-> "loop", total |-> n, batch_size |-> batch_size,
                        i |-> 0, j |-> 0, stats |-> NewStats,
                        added |-> [k \in 1..n |-> "pending"]]

\* documents[i:i+batch_size], as document numbers
IngestionBatch ==
    {k \in 1..ingestion.total :
        ingestion.i < k /\ k <= ingestion.i + ingestion.batch_size}

\* a retry that counts the success and leaves failed_chunks as it is
CountRetrySuccessOnly(stats) ==
    [stats EXCEPT !.successful_chunks = @ + 1]

\* the retry succeeded: successful_chunks += 1; failed_chunks -= 1
CountRetrySuccess(stats) ==
    [stats EXCEPT !.successful_chunks = @ + 1, !.failed_chunks = @ - 1]

\* self.vector_db.add_documents(batch) returns
AddBatchSucceeds ==
    /\ ingestion.pc = "loop"
    /\ ingestion.i < ingestion.total
    /\ ingestion' = [ingestion EXCEPT
                       !.stats.successful_chunks = @ + Cardinality(IngestionBatch),
                       !.added = [k \in 1..ingestion.total |->
                                     IF k \in IngestionBatch THEN "batch" ELSE @[k]],
                       !.i = @ + ingestion.batch_size]
    /\ UNCHANGED <<rvars, cvars, but_ingestion>>

\* self.vector_db.add_documents(batch) raises: the except branch up to the
\* loop over the documents of the batch
AddBatchFails ==
    /\ ingestion.pc = "loop"
    /\ ingestion.i < ingestion.total
    /\ ingestion' = [ingestion EXCEPT
                       !.stats.failed_chunks = @ + Cardinality(IngestionBatch),
                       !.stats.embedding_errors = @ + 1,
                       !.pc = "retry",
                       !.j = 1]
    /\ UNCHANGED <<rvars, cvars, but_ingestion>>

\* one round of for doc in batch: self.vector_db.add_documents([doc]) returns
\* (ok) or raises; after the last document of the batch the outer loop goes on
AddDocument(ok) ==
    /\ ingestion.pc = "retry"
    /\ ingestion.j <= Cardinality(IngestionBatch)
    /\ LET last == ingestion.j = Cardinality(IngestionBatch)
       IN  ingestion' = [ingestion EXCEPT
                           !.stats = IF ok THEN CountRetrySuccess(@) ELSE @,
                           !.added[ingestion.i + ingestion.j] =
                               IF ok THEN "retry" ELSE "failed",
                           !.j = IF last THEN 0 ELSE @ + 1,
                           !.pc = IF last THEN "loop" ELSE "retry",
                           !.i = IF last THEN @ + ingestion.batch_size ELSE @]
    /\ UNCHANGED <<rvars, cvars, but_ingestion>>

AddDocumentSucceeds == AddDocument(TRUE)

AddDocumentFails == AddDocument(FALSE)

\* range(0, len(documents), batch_size) is used up
IngestionReturns ==
    /\ ingestion.pc = "loop"
    /\ ingestion.i >= ingestion.total
    /\ ingestion' = [ingestion EXCEPT !.pc = "returned"]
    /\ UNCHANGED <<rvars, cvars, but_ingestion>>

IngestionNext ==
    \/ AddBatchSucceeds
    \/ AddBatchFails
    \/ AddDocumentSucceeds
    \/ AddDocumentFails
    \/ IngestionReturns

SpecIngestion == IngestionInit /\ [][IngestionNext]_vars


----------------------------------------------------------------------------
(* Properties of the chunker *)

ChunkIdOf(chunk) == Get(chunk.metadata, "chunk_id", "none")

\* the document whose chunks doc_chunks holds
Chunked == doc_index > 1 /\ Strip(batch[doc_index - 1].page_content) # <<>>

\* the only mark the chunker writes on chunks it keeps together
KeptWhole(chunk) == Get(chunk.metadata, "table_heavy", FALSE)

Even(n) == n % 2 = 0

\* C8: over all chunks that one split_documents call returns, no two chunks
\* carry the same chunk_id.
C8_ChunkIdsUniqueInRun ==
    split_pc = "returned" =>
        \A i, j \in 1..Len(all_chunks) :
            i # j => ChunkIdOf(all_chunks[i]) # ChunkIdOf(all_chunks[j])

\* C9: every chunk of a document is at most max_chunk_size characters long
\* unless it is marked as kept whole.
C9_ChunksWithinMaxSize ==
    Chunked =>
        \A i \in 1..Len(doc_chunks) :
            Len(doc_chunks[i].page_content) <= max_chunk_size \/ KeptWhole(doc_chunks[i])

\* C10: the chunks of a document with an even number of code-fence delimiters
\* each hold an even number of code-fence delimiters.
C10_BalancedFencesStayBalanced ==
    (Chunked /\ Even(CountFences(batch[doc_index - 1].page_content))) =>
        \A i \in 1..Len(doc_chunks) : Even(CountFences(doc_chunks[i].page_content))

\* the characters of a text that are not whitespace, in order
NonWhitespace(text) == SelectSeq(text, LAMBDA c : ~IsSpace(c))

\* s can be read off t from left to right, skipping characters of t
RECURSIVE IsSubsequence(_, _)
IsSubsequence(s, t) ==
    IF s = <<>> THEN TRUE
    ELSE IF t = <<>> THEN FALSE
    ELSE IF Head(s) = Head(t) THEN IsSubsequence(Tail(s), Tail(t))
    ELSE IsSubsequence(s, Tail(t))

\* C11: the non-whitespace characters of every chunk of a document occur, in
\* order, in the text of the document.
C11_ChunksContainedInSource ==
    Chunked =>
        \A i \in 1..Len(doc_chunks) :
            IsSubsequence(NonWhitespace(doc_chunks[i].page_content),
                          NonWhitespace(batch[doc_index - 1].page_content))

\* the texts of a list of chunks, and their chunk_index values, in order
TextsOf(chunks) == [i \in 1..Len(chunks) |-> chunks[i].page_content]

IndexesOf(chunks) == [i \in 1..Len(chunks) |-> Get(chunks[i].metadata, "chunk_index", -1)]

SplitText(text, metadata, has_nlp, answers) ==
    IF Strip(text) = <<>> THEN <<>>
    ELSE SplitDocument(Document(text, metadata), has_nlp, answers)

Empty(document) == Strip(document.page_content) = <<>>

\* the chunks of the documents of the batch from the i-th on that are not empty
RECURSIVE ChunksOfTheOthers(_)
ChunksOfTheOthers(i) ==
    IF i > Len(batch) THEN <<>>
    ELSE (IF Empty(batch[i]) THEN <<>>
          ELSE SplitDocument(batch[i], nlp, nlp_answers[i]))
         \o ChunksOfTheOthers(i + 1)

\* C13: split_documents returns, in order, the chunks of the documents that
\* are not empty and nothing for an empty or whitespace-only one; split_text
\* returns no chunk for such a text.
C13_EmptyDocumentsSkipped ==
    /\ split_pc = "returned" => all_chunks = ChunksOfTheOthers(1)
    /\ \A i \in 1..Len(batch) :
           Empty(batch[i]) =>
               SplitText(batch[i].page_content, batch[i].metadata, nlp,
                         nlp_answers[i]) = <<>>

\* a call has returned the chunks of a document that came after an empty one
C13_Witness ==
    /\ split_pc = "returned"
    /\ Len(batch) = 2
    /\ Empty(batch[1])
    /\ ~Empty(batch[2])
    /\ all_chunks # <<>>

\* chunk_document takes the parser strategy for the document
IsParserDocument(document) ==
    \/ Get(document.metadata, "doc_type", "") = "parser"
    \/ Get(document.metadata, "content_type", "") = "parser"

SameValue(a, b) == ToString(a) = ToString(b)

\* the chunk carries every critical field of the source with the source's value
KeepsCriticalFields(source_metadata, chunk_metadata) ==
    \A field \in Range(critical_fields) \cap DOMAIN source_metadata :
        /\ Has(chunk_metadata, field)
        /\ SameValue(chunk_metadata[field], source_metadata[field])

\* C15: every chunk that split_documents returns for a document carries each
\* critical field of the document's metadata with the document's value.
C15_CriticalFieldsKept ==
    Chunked =>
        \A i \in 1..Len(doc_chunks) :
            KeepsCriticalFields(batch[doc_index - 1].metadata, doc_chunks[i].metadata)

\* chunk_document takes the use-case strategy for the document
IsUseCaseDocument(document) ==
    /\ ~IsParserDocument(document)
    /\ \/ Get(document.metadata, "doc_type", "") = "use_case"
       \/ Get(document.metadata, "content_type", "") = "use_case"

\* the lines of a text that are level-1 or level-2 headings
SectionLines(text) ==
    {i \in 1..Len(SplitLines(text)) : MatchSection(SplitLines(text)[i]).level \in {1, 2}}

\* the heading texts of the sections of a text
SectionHeadings(text) ==
    {Strip(MatchSection(SplitLines(text)[i]).group) : i \in SectionLines(text)}

\* a use-case document of two or more sections, the first line being a heading
SectionedUseCase(document) ==
    /\ IsUseCaseDocument(document)
    /\ 1 \in SectionLines(document.page_content)
    /\ Cardinality(SectionLines(document.page_content)) >= 2

\* C16: a use-case document of two or more sections, each opened by a level-1
\* or level-2 heading, gives at least one chunk per section, and every chunk
\* carries as section_header the text of one of those headings.
C16_UseCaseChunksCarrySection ==
    (Chunked /\ SectionedUseCase(batch[doc_index - 1])) =>
        /\ Len(doc_chunks) >= Cardinality(SectionLines(batch[doc_index - 1].page_content))
        /\ \A i \in 1..Len(doc_chunks) :
               /\ Has(doc_chunks[i].metadata, "section_header")
               /\ doc_chunks[i].metadata.section_header # <<>>
               /\ doc_chunks[i].metadata.section_header
                      \in SectionHeadings(batch[doc_index - 1].page_content)

\* a use-case document of two sections, one of them cut into sub-chunks, has
\* been chunked
C16_Witness ==
    /\ Chunked
    /\ SectionedUseCase(batch[doc_index - 1])
    /\ Len(doc_chunks) > Cardinality(SectionLines(batch[doc_index - 1].page_content))
    /\ \E i \in 1..Len(doc_chunks) :
           Get(doc_chunks[i].metadata, "section_header", <<>>) = <<"b">>

\* the lists of extracted entities that enrich_document may add
EntityLists ==
    {"extracted_products", "extracted_data_sources", "extracted_parsers",
     "extracted_use_cases", "extracted_mitre", "extracted_event_types", "extracted_fields"}

\* two chunks share an entity of one category with the same name, ignoring case
SharesEntity(c, d) ==
    \E t \in EntityLists \cap DOMAIN c.metadata \cap DOMAIN d.metadata :
        \E k \in 1..Len(c.metadata[t]), l \in 1..Len(d.metadata[t]) :
            Lower(c.metadata[t][k].name) = Lower(d.metadata[t][l].name)

\* chunk c lists chunk d in related_documents
ListsAsRelated(c, d) ==
    /\ Has(c.metadata, "related_documents")
    /\ \E k \in 1..Len(c.metadata.related_documents) :
           c.metadata.related_documents[k].id = d.metadata.chunk_id

\* C17: after the cross-reference step a chunk lists another chunk as related
\* exactly when the two share an entity of some category with the same name,
\* ignoring case, and no chunk lists itself.
C17_RelatedIffSharedEntity ==
    split_pc = "cross_referenced" =>
        \A i, j \in 1..Len(doc_chunks) :
            ListsAsRelated(doc_chunks[i], doc_chunks[j])
                <=> (i # j /\ SharesEntity(doc_chunks[i], doc_chunks[j]))

\* C18: for a text with an odd number of fence delimiters evaluate_coherence
\* returns a score below 0.8, whatever the similarities of its sentences.
C18_OpenFenceLowersCoherence ==
    (evaluation.pc = "returned" /\ CountFences(evaluation.text) % 2 # 0) =>
        evaluation.score < 800

----------------------------------------------------------------------------
(* Properties of ExabeamChunker *)

\* the document has the text and the metadata map it was given with
Unchanged(given, now) ==
    /\ now.page_content = given.page_content
    /\ DOMAIN now.metadata = DOMAIN given.metadata
    /\ \A k \in DOMAIN given.metadata : SameValue(now.metadata[k], given.metadata[k])

\* C19: the input Document is read-only: once chunk_documents has returned, the
\* text and the metadata map of every document of the call are the ones the
\* caller passed; chunk ids and totals are written to the chunks' own metadata
C19_InputDocumentsReadOnly ==
    exabeam.pc = "returned" =>
        \A i \in 1..Len(exabeam.given) : Unchanged(exabeam.given[i], exabeam.documents[i])

----------------------------------------------------------------------------
(* Properties of Reranker.diversify_results *)

\* how often the item occurs in the list
Occurrences(items, item) == Cardinality({i \in 1..Len(items) : items[i] = item})

\* the scored candidates that score at least 0.5
GoodCandidates(items) == {item \in Range(items) : ScoreOf(item) >= FillScoreMin}

\* C20: for more than 3 scored candidates diversify_results selects the top
\* candidate of each document type that scores at least 0.6 and then the
\* remaining candidates that score at least 0.5: the result holds exactly the
\* candidates scoring at least 0.5, and no candidate twice, whether a candidate
\* is taken to be an entry of the list (every entry selected once) or a
\* (document, score) pair (every pair listed once).
C20_DiversifySelectsEachGoodCandidateOnce ==
    (pc = "returned" /\ Len(scored_docs) > DiversifyMinDocs) =>
        /\ Range(diversified_docs) = GoodCandidates(scored_docs)
        /\ \/ \A item \in GoodCandidates(scored_docs) :
                  Occurrences(diversified_docs, item) = Occurrences(scored_docs, item)
           \/ \A item \in GoodCandidates(scored_docs) :
                  Occurrences(diversified_docs, item) = 1

----------------------------------------------------------------------------
(* Properties of the use-case heading path *)

\* the level-1 headings above line k
Level1Above(lines, k) == {j \in 1..(k - 1) : MatchSection(lines[j]).level = 1}

\* the lineage of the heading on line k: its nearest level-1 ancestor, if it is
\* a level-2 heading that has one, and the heading itself
Lineage(lines, k) ==
    LET own == <<Strip(MatchSection(lines[k]).group)>>
        above == Level1Above(lines, k)
    IN  IF MatchSection(lines[k]).level = 1 \/ above = {} THEN own
        ELSE <<Strip(MatchSection(lines[CHOOSE j \in above : \A i \in above : i <= j]).group)>>
                 \o own

\* C21: the section_path of a chunk of a use-case document is the lineage of a
\* level-1 or level-2 heading of the document: the heading's ancestors and the
\* heading itself as last element, never two sibling headings, also when the
\* document has no level-1 heading.
C21_SectionPathIsLineage ==
    (Chunked /\ IsUseCaseDocument(batch[doc_index - 1])) =>
        \A i \in 1..Len(doc_chunks) :
            Get(doc_chunks[i].metadata, "section_level", 0) \in {1, 2} =>
                \E k \in SectionLines(batch[doc_index - 1].page_content) :
                    doc_chunks[i].metadata.section_path
                        = Join(Lineage(SplitLines(batch[doc_index - 1].page_content), k),
                               <<"/">>)

----------------------------------------------------------------------------
(* Properties of the boundary-based chunking *)

\* line i is a title over a line of = or of -
IsUnderlinedTitle(lines, i) ==
    /\ i < Len(lines)
    /\ Strip(lines[i]) # <<>>
    /\ Strip(lines[i + 1]) # <<>>
    /\ \/ \A k \in 1..Len(Strip(lines[i + 1])) : Strip(lines[i + 1])[k] = "="
       \/ \A k \in 1..Len(Strip(lines[i + 1])) : Strip(lines[i + 1])[k] = "-"

\* line i is a heading line, #-prefixed or underlined
IsHeadingLine(lines, i) ==
    \/ HashHeaderGroup(lines[i], 1) # <<>> \/ HashHeaderGroup(lines[i], 2) # <<>>
    \/ HashHeaderGroup(lines[i], 3) # <<>> \/ HashHeaderGroup(lines[i], 4) # <<>>
    \/ IsUnderlinedTitle(lines, i)

\* the start offsets of the heading lines of a text
HeadingStarts(text) ==
    {LineStart(SplitLines(text), i) :
        i \in {j \in 1..Len(SplitLines(text)) : IsHeadingLine(SplitLines(text), j)}}

\* C22: with NLTK initialised, _find_semantic_boundaries returns a strictly
\* increasing list of offsets within the text that includes the start offset of
\* every heading line, a #-prefixed one or a title line followed by a line of =
\* or of -.
C22_BoundariesHoldEveryHeading ==
    (chunking.pc = "returned" /\ chunking.nlp) =>
        /\ \A i \in 1..(Len(chunking.boundaries) - 1) :
               chunking.boundaries[i] < chunking.boundaries[i + 1]
        /\ \A i \in 1..Len(chunking.boundaries) :
               chunking.boundaries[i] \in 0..Len(chunking.document.page_content)
        /\ HeadingStarts(chunking.document.page_content) \subseteq Range(chunking.boundaries)

\* the non-whitespace characters of all chunks of the call, in order
ChunkCharacters ==
    NonWhitespace(Flatten(TextsOf(chunking.result_docs)))

\* the chunks are what a fixed-size splitter with the adjusted chunk size gives:
\* none is longer than the chunk size, and together they hold the text
FixedSizeSplit ==
    /\ \A i \in 1..Len(chunking.result_docs) :
           Len(chunking.result_docs[i].page_content)
               <= _adjust_chunk_size(chunking.answers.text_density).chunk_size
    /\ IsSubsequence(NonWhitespace(chunking.document.page_content), ChunkCharacters)

\* C23: when boundary detection yields no boundary or exactly one boundary,
\* _chunk_by_semantic_boundaries returns the chunks of the fixed-size splitter
\* and not the single slice.
C23_FallbackForZeroOrOneSlice ==
    (chunking.pc = "returned" /\ Len(chunking.boundaries) <= 1) => FixedSizeSplit

\* C28: when _find_semantic_boundaries returns a non-empty list, every
\* non-whitespace character of the text is in some chunk, the text before the
\* first boundary included: the text can be read off the chunks in order.
C28_BoundaryChunkingLosesNothing ==
    (chunking.pc = "returned" /\ chunking.boundaries # <<>>) =>
        IsSubsequence(NonWhitespace(chunking.document.page_content), ChunkCharacters)

----------------------------------------------------------------------------
(* Properties of the table-aware strategy *)

FirstLine(text) == Head(SplitLines(text))

LastLine(text) == SplitLines(text)[Len(SplitLines(text))]

\* the document went through _chunk_table_heavy_document
TableHeavy(chunks) ==
    \A i \in 1..Len(chunks) : Get(chunks[i].metadata, "table_heavy", FALSE) = TRUE

\* C24: the table-aware strategy never ends a chunk between two consecutive
\* lines of one table: the last line of a chunk and the first line of the next
\* chunk are not both table lines, also when the flush condition becomes true on
\* a table's header row.
C24_NoChunkEndsInsideATable ==
    (Chunked /\ TableHeavy(doc_chunks)) =>
        \A i \in 1..(Len(doc_chunks) - 1) :
            ~(/\ IsTableRow(LastLine(doc_chunks[i].page_content))
              /\ IsTableRow(FirstLine(doc_chunks[i + 1].page_content)))

----------------------------------------------------------------------------
(* Properties of the parser strategy *)

IsFenceLine(line) == StartsWith(Strip(line), FENCE)

\* a fence is open after line k: an odd number of fence lines up to line k
FenceOpenAfter(lines, k) ==
    Cardinality({j \in 1..k : IsFenceLine(lines[j])}) % 2 = 1

\* the number of lines in the first n sections
LinesIn(sections, n) ==
    Len(SplitLines(JoinLines(SubSeq(sections, 1, n))))

\* a line that looks like a heading lies between an opening fence line and its
\* closing fence line
HeadingInsideFence(lines) ==
    \E k \in 2..Len(lines) :
        /\ IsSectionHeader(lines[k])
        /\ FenceOpenAfter(lines, k - 1)
        /\ \E j \in (k + 1)..Len(lines) : IsFenceLine(lines[j])

\* C25: the sections of an oversized parser document are its lines in order,
\* and no section ends while a fence is open: a line between an opening fence
\* line and its closing fence line, even one that looks like a heading, is in
\* the section of the opening fence line.
C25_NoSectionBreakInsideFence ==
    chunking.pc = "returned" =>
        LET lines == SplitLines(chunking.document.page_content)
        IN  /\ JoinLines(chunking.sections) = chunking.document.page_content
            /\ \A n \in 1..(Len(chunking.sections) - 1) :
                   ~FenceOpenAfter(lines, LinesIn(chunking.sections, n))

\* a document of two sections with a heading-like line inside a closed fence
C25_Witness ==
    /\ chunking.pc = "returned"
    /\ Len(chunking.sections) = 2
    /\ HeadingInsideFence(SplitLines(chunking.document.page_content))

----------------------------------------------------------------------------
(* Properties of the batch *)

\* the chunks come from documents of the batch with different ids
FromDifferentDocuments(c, d) == c.metadata.id # d.metadata.id

\* C26: the cross-reference step covers the whole batch given to
\* split_documents: two returned chunks that come from different documents of
\* the batch and share an entity list each other in related_documents.
C26_CrossReferenceCoversBatch ==
    split_pc = "returned" =>
        \A i, j \in 1..Len(all_chunks) :
            (/\ i # j
             /\ FromDifferentDocuments(all_chunks[i], all_chunks[j])
             /\ SharesEntity(all_chunks[i], all_chunks[j]))
                => ListsAsRelated(all_chunks[i], all_chunks[j])

----------------------------------------------------------------------------
(* Properties of the NLP initialisation *)

\* C27: in one process _initialize_nlp runs exactly once, however many
\* SemanticChunker, DocumentAnalyzer and ChunkQualityEvaluator instances are
\* constructed and by however many workers, and no two workers are in it at
\* the same time.
C27_NlpInitializedOnce ==
    (nlp_init.pc = "running" /\ Constructions > 0) =>
        /\ nlp_init.runs = 1
        /\ Cardinality({w \in Workers : nlp_init.constructing[w] # "none"}) <= 1

----------------------------------------------------------------------------
(* Properties of the threshold filter *)

\* the scored candidates at or above the threshold of the request
AtOrAboveThreshold ==
    {i \in 1..Len(scored_docs) : ScoreOf(scored_docs[i]) >= threshold}

\* the documents the request returned
ReturnedDocuments ==
    IF op = "rerank" THEN Range(result) ELSE Range(DocsOf(result))

\* C29: the threshold is the only reason a candidate is dropped: for more than
\* 3 candidates of which at least 3 score at or above the threshold, every
\* candidate scoring at or above the threshold is returned, also when the
\* threshold is below 0.5.
C29_ThresholdAloneDropsCandidates ==
    (/\ pc = "returned"
     /\ Len(scored_docs) > DiversifyMinDocs
     /\ Cardinality(AtOrAboveThreshold) >= MinKept) =>
        \A i \in AtOrAboveThreshold : DocOf(scored_docs[i]) \in ReturnedDocuments

----------------------------------------------------------------------------
(* Properties of the ingestion statistics *)

\* the documents that were added with their batch or on their own
AddedDocuments ==
    {k \in 1..ingestion.total : ingestion.added[k] \in {"batch", "retry"}}

\* C30: under any pattern of batch and per-document failures neither counter
\* is ever negative, and once all batches are processed successful_chunks +
\* failed_chunks is the number of documents passed in and successful_chunks
\* counts exactly the documents whose batch add succeeded or whose individual
\* retry succeeded after the batch add failed.
C30_IngestionStatisticsConsistent ==
    ingestion.pc # "idle" =>
        /\ ingestion.stats.successful_chunks >= 0
        /\ ingestion.stats.failed_chunks >= 0
        /\ ingestion.pc = "returned" =>
               /\ ingestion.stats.successful_chunks + ingestion.stats.failed_chunks
                      = ingestion.total
               /\ ingestion.stats.successful_chunks = Cardinality(AddedDocuments)
               /\ \A k \in 1..ingestion.total : ingestion.added[k] # "pending"

\* one batch went in whole, another failed and of its documents one was added
\* on its own and one was not
C30_Witness ==
    /\ ingestion.pc = "returned"
    /\ \E a, b, c \in 1..ingestion.total :
           /\ ingestion.added[a] = "batch"
           /\ ingestion.added[b] = "retry"
           /\ ingestion.added[c] = "failed"

====
